---- MODULE Spec2Model ----
(***************************************************************************)
(* JurisFlow: the deterministic calculators of the repository.             *)
(*                                                                         *)
(*   core/calculo_trabalhista.py  calcular_rescisao (severance)            *)
(*   core/financeiro_bcb.py       GerenteFinanceiroBCB (arrears, indexes)  *)
(*   core/lookup_data.py          minimum wage / INSS ceiling tables       *)
(*   agents/agent_prev.py         detection and the calculation step       *)
(*                                                                         *)
(* Conventions of the model                                                *)
(*   - Python's None is the empty tuple, a present value v is <<v>>.       *)
(*   - A date is a record [year, month, day].                              *)
(*   - A call that raises is the record [exc |-> <exception class>];       *)
(*     a call that returns v is [exc |-> "none", val |-> v].               *)
(*   - Severance amounts are exact rationals held as integers in units of  *)
(*     1/Escala real (Escala = 12 * 30 * 1000 makes every formula of the   *)
(*     function an integer); emitted values are centavos after round(x,2). *)
(*   - Arrears amounts are integers in units of 1/EscalaPrev real.         *)
(*   - A monthly rate is held in hundredths of a percent (1.08 -> 108).    *)
(*   - A correction factor carries the sequence of the rates the loop has  *)
(*     multiplied in, in order (<<r1, r2>> stands for                      *)
(*     (1 + r1/100) * (1 + r2/100), << >> for 1.0) and their product with  *)
(*     six decimals.                                                       *)
(*   - A text that the code inspects is the tuple of its characters.       *)
(*   - Human-readable texts of a result (descricao, formula) are left out; *)
(*     an observation is a short tag, with its arguments where it has any. *)
(***************************************************************************)
EXTENDS Integers, Sequences, FiniteSets, TLC

VARIABLES
    dados,                      \* the facts / arguments of the call under way
    sgs,                        \* what the live BCB series returns to this call
    resultado,                  \* what the call returned (or raised)
    pc,                         \* "pronto" before the call, "feito" after it
    hoje,                       \* date.today() where the step reads it, else None
    locais,                     \* the locals of a call followed step by step, else None
    HISTORICO_SALARIO_MINIMO,   \* lookup_data.py: year -> <<(mes_inicio, valor)>>
    HISTORICO_TETO_INSS         \* lookup_data.py: year -> <<(mes_inicio, valor)>>

vars ==
    <<dados, sgs, resultado, pc, hoje, locais, HISTORICO_SALARIO_MINIMO, HISTORICO_TETO_INSS>>

----------------------------------------------------------------------------
(* Python values *)

None == << >>

Some(v) == <<v>>

IsNone(o) == o = << >>

Val(o) == o[1]

\* Python truthiness of an Optional[float]: None and 0 are falsy.
Truthy(o) == o # << >> /\ o[1] # 0

Min(a, b) == IF a <= b THEN a ELSE b

Abs(a) == IF a < 0 THEN -a ELSE a

Sign(a) == IF a < 0 THEN -1 ELSE 1

\* dict[k] = v
Put(d, k, v) == [x \in (DOMAIN d) \cup {k} |-> IF x = k THEN v ELSE d[x]]

RECURSIVE SeqSum(_)
SeqSum(s) == IF s = << >> THEN 0 ELSE s[1] + SeqSum(Tail(s))

InSeq(x, s) == \E i \in DOMAIN s : s[i] = x

----------------------------------------------------------------------------
(* datetime.date and dateutil.relativedelta *)

Date(y, m, d) == [year |-> y, month |-> m, day |-> d]

Bissexto(y) == (y % 4 = 0) /\ ((y % 100 # 0) \/ (y % 400 = 0))

DiasNoMes(y, m) ==
    IF m = 2 THEN (IF Bissexto(y) THEN 29 ELSE 28)
    ELSE IF m \in {4, 6, 9, 11} THEN 30 ELSE 31

DataValida(d) == d.month \in 1..12 /\ d.day \in 1..DiasNoMes(d.year, d.month)

\* date comparison
DataLt(a, b) ==
    \/ a.year < b.year
    \/ a.year = b.year /\ a.month < b.month
    \/ a.year = b.year /\ a.month = b.month /\ a.day < b.day

DataLe(a, b) == a = b \/ DataLt(a, b)

\* The calendar month of a date as one integer.
IndiceMes(d) == d.year * 12 + (d.month - 1)

DataSemReplace(d) == d

\* date.replace(day=1)
PrimeiroDia(d) == Date(d.year, d.month, 1)

\* The first day of the month with the given index.
MesDeIndice(i) == Date(i \div 12, (i % 12) + 1, 1)

\* date + relativedelta(months=n): the day is clipped to the month's length.
MaisMeses(d, n) ==
    LET i == IndiceMes(d) + n
        y == i \div 12
        m == (i % 12) + 1
    IN  Date(y, m, Min(DiasNoMes(y, m), d.day))

RECURSIVE DiasAntesDoMes(_, _)
DiasAntesDoMes(y, m) == IF m = 1 THEN 0 ELSE DiasAntesDoMes(y, m - 1) + DiasNoMes(y, m - 1)

\* date.toordinal()
Ordinal(d) ==
    LET y == d.year - 1
    IN  365 * y + (y \div 4) - (y \div 100) + (y \div 400) + DiasAntesDoMes(d.year, d.month) + d.day

\* relativedelta(dt1, dt2)'s loop: move the month count until dt2 + months
\* is on dt1's side.
RECURSIVE AjustaMeses(_, _, _)
AjustaMeses(dt1, dt2, months) ==
    LET dtm == MaisMeses(dt2, months)
    IN  IF DataLt(dt1, dt2)
        THEN IF DataLt(dtm, dt1) THEN AjustaMeses(dt1, dt2, months + 1) ELSE months
        ELSE IF DataLt(dt1, dtm) THEN AjustaMeses(dt1, dt2, months - 1) ELSE months

\* relativedelta(dt1, dt2): years, months and days carry the same sign.
relativedelta(dt1, dt2) ==
    LET months == AjustaMeses(dt1, dt2, IndiceMes(dt1) - IndiceMes(dt2))
        dtm    == MaisMeses(dt2, months)
        s      == Sign(months)
    IN  [years  |-> s * ((s * months) \div 12),
         months |-> s * ((s * months) % 12),
         days   |-> Ordinal(dt1) - Ordinal(dtm)]

\* strftime("%m/%Y"): the label of a month, "MM/YYYY" as its digits.
Competencia(d) ==
    <<d.month \div 10, d.month % 10,
      (d.year \div 1000) % 10, (d.year \div 100) % 10, (d.year \div 10) % 10, d.year % 10>>

----------------------------------------------------------------------------
(* core/calculo_trabalhista.py *)

\* Units per real of the severance amounts: /12, /30 and x 1.333 stay integers.
Escala == 12 * 30 * 1000

\* round(x, 2) of an amount in 1/Escala real, in centavos (ties to even).
Round2(u) ==
    LET c == Escala \div 100
        q == u \div c
        r == u % c
    IN  IF 2 * r < c THEN q
        ELSE IF 2 * r > c THEN q + 1
        ELSE IF q % 2 = 0 THEN q ELSE q + 1

\* Centavos as an amount in 1/Escala real.
DeCentavos(c) == c * (Escala \div 100)

\* "justa causa" in justificativa.lower(), over the texts the model feeds in.
ContemJustaCausa(texto) == texto \in {"sem justa causa", "Justa Causa", "justa causa"}

VerbasReconhecidas ==
    <<"fgts", "multa_40", "aviso_previo", "ferias_proporcionais", "decimo_terceiro", "saldo_salario">>

RemuneracaoSoSalario(d) == IF Truthy(d.salario_base) THEN Val(d.salario_base) ELSE 0

calcular_remuneracao_total(d) ==
    LET base == IF Truthy(d.salario_base) THEN Val(d.salario_base) ELSE 0
        a    == d.adicionais
        ins  == IF a # None /\ Truthy(Val(a).insalubridade) THEN Val(Val(a).insalubridade) ELSE 0
        per  == IF a # None /\ Truthy(Val(a).periculosidade) THEN Val(Val(a).periculosidade) ELSE 0
        not  == IF a # None /\ Truthy(Val(a).noturno) THEN Val(Val(a).noturno) ELSE 0
    IN  base + ins + per + not

MesesSemDiasExtras(delta) == 30 * ((delta.years * 12) + delta.months)

\* meses_trabalhados in thirtieths of a month: whole months, plus dias/30.0
\* when the leftover days are positive.
MesesTrabalhados30(delta) ==
    30 * ((delta.years * 12) + delta.months) + (IF delta.days > 0 THEN delta.days ELSE 0)

\* dados.salario_base * 0.08 * meses_trabalhados
FgtsEstimado(sal, meses30) == sal * 8 * meses30 * (Escala \div (100 * 30))

FgtsBaseSemRecalculo(fgts_estimado, sal, meses30) == fgts_estimado

\* fgts_base of the 40% penalty: the FGTS item when it is positive, else
\* recomputed from the salary.
FgtsBaseMulta(fgts_estimado, sal, meses30) ==
    IF fgts_estimado > 0 THEN fgts_estimado ELSE FgtsEstimado(sal, meses30)

\* min(meses_trabalhados % 12, 12), in thirtieths
MesesAnoAtual30(meses30) == Min(meses30 % (12 * 30), 12 * 30)

\* (salario_base / 12) * meses_ano_atual
Proporcional(sal, mm30) == sal * mm30 * (Escala \div (12 * 30))

\* ferias_proporcionais * 1.333
FeriasComTerco(ferias) == (ferias \div 1000) * 1333

\* line 81: a date is missing
DatasAusentes(d) == d.data_admissao = None \/ d.data_dispensa = None

SalarioInvalidoSoNegativo(d) == d.salario_base = None \/ Val(d.salario_base) < 0

\* line 89: the base salary is missing or not positive
SalarioInvalido(d) == d.salario_base = None \/ Val(d.salario_base) <= 0

ErroRescisao(msg) ==
    [status |-> "erro", erro |-> msg, total_estimado |-> 0, total_geral |-> 0]

\* Lines 97-112: the locals of the function before the first item.
LocaisRescisao(d) ==
    [d |-> d,
     sal |-> Val(d.salario_base),
     remuneracao_total |-> calcular_remuneracao_total(d),
     delta |-> relativedelta(Val(d.data_dispensa), Val(d.data_admissao)),
     meses30 |-> MesesTrabalhados30(relativedelta(Val(d.data_dispensa), Val(d.data_admissao))),
     memoria_calculo |-> << >>,
     observacoes |-> << >>,
     total_estimado |-> 0,
     fgts_estimado |-> 0,
     multa_477_valor |-> 0,
     multa_467_valor |-> 0]

\* 1. FGTS (lines 115-124)
PassoFgts(st) ==
    IF InSeq("fgts", st.d.verbas_requeridas)
    THEN [st EXCEPT !.fgts_estimado = FgtsEstimado(st.sal, st.meses30),
                    !.memoria_calculo = Put(@, "fgts", [valor |-> Round2(FgtsEstimado(st.sal, st.meses30))]),
                    !.total_estimado = @ + FgtsEstimado(st.sal, st.meses30)]
    ELSE [st EXCEPT !.fgts_estimado = 0]

\* fgts_base * 0.40
Multa40(fgts_base) == (fgts_base * 4) \div 10

\* 2. 40% penalty on the FGTS (lines 127-136)
PassoMulta40(st) ==
    IF InSeq("multa_40", st.d.verbas_requeridas)
    THEN [st EXCEPT !.memoria_calculo =
                        Put(@, "multa_40_fgts",
                            [valor |-> Round2(Multa40(FgtsBaseMulta(st.fgts_estimado, st.sal, st.meses30)))]),
                    !.total_estimado = @ + Multa40(FgtsBaseMulta(st.fgts_estimado, st.sal, st.meses30))]
    ELSE st

\* 3. notice period (lines 139-146)
PassoAvisoPrevio(st) ==
    IF InSeq("aviso_previo", st.d.verbas_requeridas)
    THEN [st EXCEPT !.memoria_calculo = Put(@, "aviso_previo", [valor |-> Round2(st.sal * Escala)]),
                    !.total_estimado = @ + st.sal * Escala]
    ELSE st

\* 4. proportional vacation with the one-third bonus (lines 149-159)
PassoFerias(st) ==
    IF InSeq("ferias_proporcionais", st.d.verbas_requeridas)
    THEN [st EXCEPT !.memoria_calculo =
                        Put(@, "ferias_proporcionais",
                            [valor |-> Round2(FeriasComTerco(Proporcional(st.sal, MesesAnoAtual30(st.meses30))))]),
                    !.total_estimado = @ + FeriasComTerco(Proporcional(st.sal, MesesAnoAtual30(st.meses30)))]
    ELSE st

\* 5. proportional thirteenth salary (lines 162-170)
PassoDecimoTerceiro(st) ==
    IF InSeq("decimo_terceiro", st.d.verbas_requeridas)
    THEN [st EXCEPT !.memoria_calculo =
                        Put(@, "decimo_terceiro",
                            [valor |-> Round2(Proporcional(st.sal, MesesAnoAtual30(st.meses30)))]),
                    !.total_estimado = @ + Proporcional(st.sal, MesesAnoAtual30(st.meses30))]
    ELSE st

\* 6. Art. 477 penalty: one total remuneration (lines 173-181)
PassoMulta477(st) ==
    IF st.d.multa_477_requerida
    THEN [st EXCEPT !.multa_477_valor = st.remuneracao_total * Escala,
                    !.memoria_calculo = Put(@, "multa_477_clt", [valor |-> Round2(st.remuneracao_total * Escala)]),
                    !.observacoes = Append(@, <<"multa_477_aplicada">>)]
    ELSE st

\* memoria_calculo[k]["valor"] when the item is in the trace, else nothing
ValorNaMemoria(m, k) == IF k \in DOMAIN m THEN m[k].valor ELSE 0

Multa467ComFgts(m) ==
    DeCentavos(ValorNaMemoria(m, "aviso_previo") + ValorNaMemoria(m, "ferias_proporcionais")
               + ValorNaMemoria(m, "decimo_terceiro") + ValorNaMemoria(m, "fgts")) \div 2

\* verbas_incontroversas * 0.50, over the rounded line items of the trace
Multa467(m) ==
    DeCentavos(ValorNaMemoria(m, "aviso_previo") + ValorNaMemoria(m, "ferias_proporcionais")
               + ValorNaMemoria(m, "decimo_terceiro")) \div 2

\* 7. Art. 467 penalty (lines 184-207)
PassoMulta467(st) ==
    IF st.d.multa_467_requerida
    THEN [st EXCEPT !.multa_467_valor = Multa467(st.memoria_calculo),
                    !.memoria_calculo = Put(@, "multa_467_clt", [valor |-> Round2(Multa467(st.memoria_calculo))]),
                    !.observacoes = Append(@, <<"multa_467_aplicada">>)]
    ELSE st

\* line 213
ObsTempoInferior(st) ==
    IF st.meses30 < 30 THEN [st EXCEPT !.observacoes = Append(@, <<"tempo_inferior_a_1_mes">>)] ELSE st

TemAdicional(a) ==
    a # None /\ (Truthy(Val(a).insalubridade) \/ Truthy(Val(a).periculosidade) \/ Truthy(Val(a).noturno))

\* lines 216-219
ObsAdicionais(st) ==
    IF TemAdicional(st.d.adicionais)
    THEN [st EXCEPT !.observacoes = Append(@, <<"remuneracao_total", st.remuneracao_total>>)] ELSE st

\* lines 221-222
ObsJustaCausa(st) ==
    IF st.d.justificativa_demissao # None /\ ContemJustaCausa(Val(st.d.justificativa_demissao))
    THEN [st EXCEPT !.observacoes = Append(@, <<"alerta_justa_causa">>)] ELSE st

NaoReconhecida(v) == ~InSeq(v, VerbasReconhecidas)

\* line 226
VerbasNaoCalculadas(verbas) == SelectSeq(verbas, NaoReconhecida)

\* lines 228-229
ObsNaoCalculadas(st) ==
    IF VerbasNaoCalculadas(st.d.verbas_requeridas) # << >>
    THEN [st EXCEPT !.observacoes =
                        Append(@, <<"nao_calculadas", VerbasNaoCalculadas(st.d.verbas_requeridas)>>)]
    ELSE st

\* lines 210 and 232-250 (data_calculo, today's date, is left out)
ResultadoRescisao(st) ==
    [status |-> "sucesso",
     tempo_servico |-> [anos |-> st.delta.years, meses |-> st.delta.months, dias |-> st.delta.days,
                        meses_totais30 |-> st.meses30],
     salario_base |-> st.sal,
     remuneracao_base_calculo |-> st.remuneracao_total * 100,
     memoria_calculo |-> st.memoria_calculo,
     total_estimado |-> Round2(st.total_estimado),
     multa_477_valor |-> Round2(st.multa_477_valor),
     multa_467_valor |-> Round2(st.multa_467_valor),
     total_geral |-> Round2(st.total_estimado + st.multa_477_valor + st.multa_467_valor),
     observacoes |-> st.observacoes,
     verbas_requeridas |-> st.d.verbas_requeridas]

calcular_rescisao(d) ==
    IF DatasAusentes(d)
    THEN ErroRescisao("datas_obrigatorias")
    ELSE IF SalarioInvalido(d)
    THEN ErroRescisao("salario_invalido")
    ELSE ResultadoRescisao(
             ObsNaoCalculadas(ObsJustaCausa(ObsAdicionais(ObsTempoInferior(
             PassoMulta467(PassoMulta477(PassoDecimoTerceiro(PassoFerias(
             PassoAvisoPrevio(PassoMulta40(PassoFgts(LocaisRescisao(d)))))))))))))

----------------------------------------------------------------------------
(* core/financeiro_bcb.py: the monthly rate table *)

\* GerenteFinanceiroBCB.CODIGO_SELIC_MENSAL
CODIGO_SELIC_MENSAL == 4390

\* str.upper(), a text being the tuple of its characters.
UpperChar(c) ==
    CASE c = "s" -> "S" [] c = "e" -> "E" [] c = "l" -> "L" [] c = "i" -> "I"
      [] c = "c" -> "C" [] c = "n" -> "N" [] c = "p" -> "P" [] c = "a" -> "A"
      [] c = "t" -> "T" [] c = "r" -> "R" [] OTHER -> c

RECURSIVE Upper(_)
Upper(texto) == IF texto = << >> THEN << >> ELSE <<UpperChar(Head(texto))>> \o Upper(Tail(texto))

SELIC == <<"S", "E", "L", "I", "C">>

INPC == <<"I", "N", "P", "C">>

IPCA_E == <<"I", "P", "C", "A", "-", "E">>

\* Lines 152-157: the flat monthly rate of the fallback table, by year.
TaxaFallback(ano) == IF ano <= 2023 THEN 108 ELSE IF ano = 2024 THEN 92 ELSE 90

\* Lines 148-163: the loop of _taxas_mensais_fallback.
RECURSIVE FallbackLoop(_, _, _)
FallbackLoop(taxas_dict, data_atual, data_fim) ==
    IF DataLe(data_atual, data_fim)
    THEN FallbackLoop(Put(taxas_dict, Competencia(data_atual), TaxaFallback(data_atual.year)),
                      MaisMeses(data_atual, 1), data_fim)
    ELSE taxas_dict

_taxas_mensais_fallback(data_inicio, data_fim) ==
    FallbackLoop(<< >>, PrimeiroDia(data_inicio), data_fim)

\* Lines 115-119: the rows of the DataFrame into the dict; float() of a
\* value that is no number raises.
RECURSIVE ConverteLinhas(_, _)
ConverteLinhas(taxas_dict, linhas) ==
    IF linhas = << >> THEN [exc |-> "none", val |-> taxas_dict]
    ELSE IF Head(linhas).selic = None THEN [exc |-> "ValueError"]
    ELSE ConverteLinhas(Put(taxas_dict, Competencia(Head(linhas).data), Val(Head(linhas).selic)),
                        Tail(linhas))

\* What sgs.get gave: it raised, or returned None, or a DataFrame (its rows).
SgsLevantou(resposta) == resposta.tipo = "excecao"

FallbackSoSeNone(resposta) == resposta.tipo = "None"

\* line 107: df_selic is None or df_selic.empty
SemDados(resposta) == resposta.tipo = "None" \/ resposta.linhas = << >>

get_taxas_selic_mensais(resposta, data_inicio, data_fim) ==
    IF SgsLevantou(resposta) THEN _taxas_mensais_fallback(data_inicio, data_fim)
    ELSE IF SemDados(resposta) THEN _taxas_mensais_fallback(data_inicio, data_fim)
    ELSE IF ConverteLinhas(<< >>, resposta.linhas).exc # "none"
         THEN _taxas_mensais_fallback(data_inicio, data_fim)
    ELSE ConverteLinhas(<< >>, resposta.linhas).val

----------------------------------------------------------------------------
(* core/financeiro_bcb.py: calcular_atrasados *)

\* Units per real of the arrears amounts.
EscalaPrev == 10 * 100

\* Units of a correction factor held with six decimals.
Micro == 1000 * 1000

\* round(x, 2) of an amount in 1/EscalaPrev real, in centavos (ties to even).
Round2Prev(u) ==
    LET c == EscalaPrev \div 100
        q == u \div c
        r == u % c
    IN  IF 2 * r < c THEN q
        ELSE IF 2 * r > c THEN q + 1
        ELSE IF q % 2 = 0 THEN q ELSE q + 1

\* A correction factor: the rates multiplied in so far, and their product
\* with six decimals.
FatorUm == [taxas |-> << >>, micro |-> Micro]

MultiplicaDescontando(f, taxa) ==
    [taxas |-> Append(f.taxas, taxa), micro |-> f.micro - ((f.micro * taxa) \div (100 * 100))]

\* fator_correcao *= (1 + taxa_mes / 100)
Multiplica(f, taxa) ==
    [taxas |-> Append(f.taxas, taxa), micro |-> f.micro + ((f.micro * taxa) \div (100 * 100))]

\* valor_original * fator_correcao, without leaving 32 bits
VezesFator(v, micro) ==
    v * (micro \div Micro)
    + ((v * ((micro % Micro) \div 1000)) + ((v * ((micro % Micro) % 1000)) \div 1000)) \div 1000

TaxaDoMesZeroComoFalta(taxas_mensais, c) ==
    IF c \in DOMAIN taxas_mensais /\ taxas_mensais[c] # 0 THEN taxas_mensais[c] ELSE 100

\* taxas_mensais.get(competencia_correcao, 0.0)
TaxaDoMes(taxas_mensais, c) == IF c \in DOMAIN taxas_mensais THEN taxas_mensais[c] ELSE 0

CorrecaoSemMesFinal(data_correcao, data_fim) == DataLt(data_correcao, PrimeiroDia(data_fim))

\* line 419: while data_correcao <= data_fim
ContinuaCorrecao(data_correcao, data_fim) == DataLe(data_correcao, data_fim)

\* Lines 416-427: the factor of one installment.
RECURSIVE LoopCorrecao(_, _, _, _)
LoopCorrecao(f, data_correcao, data_fim, taxas_mensais) ==
    IF ContinuaCorrecao(data_correcao, data_fim)
    THEN LoopCorrecao(Multiplica(f, TaxaDoMes(taxas_mensais, Competencia(data_correcao))),
                      MaisMeses(data_correcao, 1), data_fim, taxas_mensais)
    ELSE f

\* Lines 359-361: meses_por_ano, a dict in insertion order, as a sequence.
RECURSIVE ContaMes(_, _)
ContaMes(meses_por_ano, ano) ==
    IF meses_por_ano = << >> THEN <<[ano |-> ano, qtd |-> 1]>>
    ELSE IF Head(meses_por_ano).ano = ano
         THEN <<[ano |-> ano, qtd |-> Head(meses_por_ano).qtd + 1]>> \o Tail(meses_por_ano)
    ELSE <<Head(meses_por_ano)>> \o ContaMes(Tail(meses_por_ano), ano)

\* Lines 364-372
ParcelaMensal(contador_mes, data_atual, rmi_efetivo) ==
    [numero |-> <<"mes", contador_mes>>,
     competencia |-> Competencia(data_atual),
     tipo |-> <<"RMI Mensal">>,
     valor_original |-> rmi_efetivo,
     data_vencimento |-> data_atual,
     ano |-> data_atual.year,
     mes |-> data_atual.month]

\* Lines 353-377: one installment per month while data_atual <= data_fim.
RECURSIVE LoopCompetencias(_, _, _, _)
LoopCompetencias(st, data_atual, data_fim, rmi_efetivo) ==
    IF DataLe(data_atual, data_fim)
    THEN LoopCompetencias(
             [competencias |-> Append(st.competencias,
                                      ParcelaMensal(st.contador_mes, data_atual, rmi_efetivo)),
              meses_por_ano |-> ContaMes(st.meses_por_ano, data_atual.year),
              contador_mes |-> st.contador_mes + 1],
             MaisMeses(data_atual, 1), data_fim, rmi_efetivo)
    ELSE st

MesFinalSempreDoFim(ano, data_fim) == data_fim.month

\* line 383
MesFinalAno(ano, data_fim) == IF ano < data_fim.year THEN 12 ELSE data_fim.month

\* line 385: if mes_final_ano >= 11
Emite13(mes_final_ano) == mes_final_ano >= 11

\* Lines 387-402
Parcela13(ano, qtd_meses, mes_final_ano, rmi_efetivo) ==
    [numero |-> <<"13º", ano>>,
     competencia |-> Competencia(Date(ano, Min(12, mes_final_ano), 1)),
     tipo |-> <<"13º Salário", ano, qtd_meses>>,
     valor_original |-> (rmi_efetivo * qtd_meses) \div 12,
     data_vencimento |-> Date(ano, Min(12, mes_final_ano), 1),
     ano |-> ano,
     mes |-> Min(12, mes_final_ano)]

\* Lines 381-402: for ano, qtd_meses in meses_por_ano.items()
RECURSIVE Loop13(_, _, _, _)
Loop13(competencias, meses_por_ano, data_fim, rmi_efetivo) ==
    IF meses_por_ano = << >> THEN competencias
    ELSE Loop13(IF Emite13(MesFinalAno(Head(meses_por_ano).ano, data_fim))
                THEN Append(competencias,
                            Parcela13(Head(meses_por_ano).ano, Head(meses_por_ano).qtd,
                                      MesFinalAno(Head(meses_por_ano).ano, data_fim), rmi_efetivo))
                ELSE competencias,
                Tail(meses_por_ano), data_fim, rmi_efetivo)

\* Lines 430-440: one line of memoria_mensal (taxas: the rates behind
\* fator_correcao).
LinhaMemoria(parcela, f) ==
    [numero |-> parcela.numero,
     competencia |-> parcela.competencia,
     tipo |-> parcela.tipo,
     valor_original |-> Round2Prev(parcela.valor_original),
     taxas |-> f.taxas,
     fator_correcao |-> f.micro,
     valor_corrigido |-> Round2Prev(VezesFator(parcela.valor_original, f.micro))]

\* Lines 410-444: for parcela in competencias
RECURSIVE LoopParcelas(_, _, _, _)
LoopParcelas(ac, competencias, data_fim, taxas_mensais) ==
    IF competencias = << >> THEN ac
    ELSE LoopParcelas(
             [memoria_mensal |->
                  Append(ac.memoria_mensal,
                         LinhaMemoria(Head(competencias),
                                      LoopCorrecao(FatorUm, Head(competencias).data_vencimento,
                                                   data_fim, taxas_mensais))),
              total_sem_correcao |-> ac.total_sem_correcao + Head(competencias).valor_original,
              total_corrigido |->
                  ac.total_corrigido
                  + VezesFator(Head(competencias).valor_original,
                               LoopCorrecao(FatorUm, Head(competencias).data_vencimento,
                                            data_fim, taxas_mensais).micro)],
             Tail(competencias), data_fim, taxas_mensais)

EhParcela13(linha) == linha.tipo[1] = "13º Salário"

EhRmiMensal(linha) == linha.tipo = <<"RMI Mensal">>

\* line 324
RmiEfetivo(rmi, tem_adicional_25) == IF tem_adicional_25 THEN (rmi * 125) \div 100 ELSE rmi

\* Lines 449-453
ObsAdicional25(obs, rmi, tem_adicional_25) ==
    IF tem_adicional_25
    THEN Append(obs, <<"acrescimo_25", Round2Prev(rmi), Round2Prev(RmiEfetivo(rmi, tem_adicional_25))>>)
    ELSE obs

\* Lines 455-457: "Indice de correcao: {indice.upper()} (conforme determinacao judicial)."
ObsIndice(obs, indice) == Append(obs, <<"indice_de_correcao", Upper(indice)>>)

\* Lines 460-465
Obs13(obs, memoria_mensal) ==
    IF SelectSeq(memoria_mensal, EhParcela13) # << >>
    THEN Append(obs, <<"13_salario_calculado", Len(SelectSeq(memoria_mensal, EhParcela13))>>)
    ELSE obs

\* Lines 467-476
ObsFinais(obs) ==
    Append(Append(obs, <<"juros_compostos_invertidos">>), <<"codigo_selic", CODIGO_SELIC_MENSAL>>)

\* line 486
IndiceAplicado(indice) == Upper(indice)

\* Lines 446-494 (data_calculo, today's date, is left out)
ResultadoAtrasados(a, ac) ==
    [status |-> "sucesso",
     rmi_base |-> Round2Prev(a.rmi),
     rmi_com_adicional |-> Round2Prev(RmiEfetivo(a.rmi, a.tem_adicional_25)),
     tem_adicional_25 |-> a.tem_adicional_25,
     total_meses |-> Len(SelectSeq(ac.memoria_mensal, EhRmiMensal)),
     total_devido_sem_correcao |-> Round2Prev(ac.total_sem_correcao),
     indice_aplicado |-> IndiceAplicado(a.indice),
     total_corrigido |-> Round2Prev(ac.total_corrigido),
     diferenca_correcao |-> Round2Prev(ac.total_corrigido - ac.total_sem_correcao),
     memoria_mensal |-> ac.memoria_mensal,
     observacoes |-> ObsFinais(Obs13(ObsIndice(ObsAdicional25(<< >>, a.rmi, a.tem_adicional_25),
                                               a.indice),
                                     ac.memoria_mensal)),
     data_inicio |-> a.data_inicio,
     data_fim |-> a.data_fim]

ErroAtrasados(msg) == [status |-> "erro", erro |-> msg, total_corrigido |-> 0]

\* Lines 345-402: the installments, ordinary ones first.
Competencias(a) ==
    Loop13(LoopCompetencias([competencias |-> << >>, meses_por_ano |-> << >>, contador_mes |-> 1],
                            PrimeiroDia(a.data_inicio), a.data_fim,
                            RmiEfetivo(a.rmi, a.tem_adicional_25)).competencias,
           LoopCompetencias([competencias |-> << >>, meses_por_ano |-> << >>, contador_mes |-> 1],
                            PrimeiroDia(a.data_inicio), a.data_fim,
                            RmiEfetivo(a.rmi, a.tem_adicional_25)).meses_por_ano,
           a.data_fim, RmiEfetivo(a.rmi, a.tem_adicional_25))

RmiInvalidaSoNegativa(rmi) == rmi < 0

\* line 309
RmiInvalida(rmi) == rmi <= 0

\* line 316
PeriodoInvalido(data_inicio, data_fim) == ~DataLt(data_inicio, data_fim)

\* Lines 328-337: every supported index reads the SELIC table.
IndiceSuportado(indice) == Upper(indice) \in {SELIC, INPC, IPCA_E}

\* a: the arguments, amounts in 1/EscalaPrev real; resposta: what sgs.get
\* gives to this call.
calcular_atrasados(a, resposta) ==
    IF RmiInvalida(a.rmi) THEN ErroAtrasados("rmi_deve_ser_maior_que_zero")
    ELSE IF PeriodoInvalido(a.data_inicio, a.data_fim) THEN ErroAtrasados("data_inicio_anterior")
    ELSE IF ~IndiceSuportado(a.indice) THEN ErroAtrasados("indice_nao_suportado")
    ELSE ResultadoAtrasados(
             a,
             LoopParcelas([memoria_mensal |-> << >>, total_sem_correcao |-> 0, total_corrigido |-> 0],
                          Competencias(a), a.data_fim,
                          get_taxas_selic_mensais(resposta, a.data_inicio, a.data_fim)))

\* Lines 262-269: the parameters of calcular_atrasados (self apart).
ParametrosCalcularAtrasados == {"rmi", "data_inicio", "data_fim", "indice", "tem_adicional_25"}

\* A call by keyword: a keyword the signature does not have is rejected
\* with a TypeError before the body runs.
Chamar_calcular_atrasados(args, resposta) ==
    IF ~((DOMAIN args) \subseteq ParametrosCalcularAtrasados) THEN [exc |-> "TypeError"]
    ELSE [exc |-> "none", val |-> calcular_atrasados(args, resposta)]

----------------------------------------------------------------------------
(* The reference tables as the module ships them (lookup_data.py). Amounts *)
(* in centavos.                                                            *)

HistoricoSalarioMinimoInicial ==
    [a \in 2022..2025 |->
        CASE a = 2022 -> <<<<1, 121200>>>>
          [] a = 2023 -> <<<<1, 130200>>, <<5, 132000>>>>
          [] a = 2024 -> <<<<1, 141200>>>>
          [] a = 2025 -> <<<<1, 151800>>>>]

HistoricoTetoInssInicial ==
    [a \in 2022..2025 |->
        CASE a = 2022 -> <<<<1, 708722>>>>
          [] a = 2023 -> <<<<1, 750749>>, <<5, 778602>>>>
          [] a = 2024 -> <<<<1, 778602>>>>
          [] a = 2025 -> <<<<1, 815741>>>>]

----------------------------------------------------------------------------
(* Severance: the facts the calculator is fed, and the call.               *)

\* Longest tenure, in calendar months after the first admission date.
MaxMesesServico == 13

AdmissaoBase == Date(2021, 9, 1)

Admissoes == {None, Some(AdmissaoBase), Some(Date(2020, 1, 31))}

\* Terminations from two months before the admission (an inverted range)
\* to MaxMesesServico months after it, on the 1st and on the 22nd.
Dispensas ==
    {None} \cup
    {Some(Date(MesDeIndice(i).year, MesDeIndice(i).month, dia)) :
        i \in (IndiceMes(AdmissaoBase) - 2)..(IndiceMes(AdmissaoBase) + MaxMesesServico),
        dia \in {1, 22}}

Salarios == {None, Some(0), Some(-50), Some(100)}

AdicionaisInputs ==
    {None, Some([insalubridade |-> Some(20), periculosidade |-> None, noturno |-> Some(0)])}

VerbasInputs ==
    { << >>,
      <<"fgts">>,
      <<"multa_40">>,
      <<"fgts", "multa_40", "aviso_previo">>,
      <<"ferias_proporcionais", "decimo_terceiro">>,
      <<"saldo_salario", "horas_extras">>,
      <<"multa_40", "aviso_previo", "ferias_proporcionais", "decimo_terceiro">>,
      <<"fgts", "multa_40", "aviso_previo", "ferias_proporcionais", "decimo_terceiro",
        "saldo_salario", "dano_moral">> }

Justificativas == {None, Some("sem justa causa")}

DadosTrabalhistas ==
    [data_admissao : Admissoes, data_dispensa : Dispensas, salario_base : Salarios,
     adicionais : AdicionaisInputs, verbas_requeridas : VerbasInputs,
     justificativa_demissao : Justificativas,
     multa_467_requerida : BOOLEAN, multa_477_requerida : BOOLEAN]

InitRescisao ==
    /\ dados \in DadosTrabalhistas
    /\ sgs = None
    /\ resultado = None
    /\ pc = "pronto"
    /\ hoje = None
    /\ locais = None
    /\ HISTORICO_SALARIO_MINIMO = HistoricoSalarioMinimoInicial
    /\ HISTORICO_TETO_INSS = HistoricoTetoInssInicial

\* agents/agent.py: resultado_calculo = calcular_rescisao(dados_extraidos)
ChamarRescisao ==
    /\ pc = "pronto"
    /\ resultado' = [exc |-> "none", val |-> calcular_rescisao(dados)]
    /\ pc' = "feito"
    /\ UNCHANGED <<dados, sgs, hoje, locais, HISTORICO_SALARIO_MINIMO, HISTORICO_TETO_INSS>>

NextRescisao == ChamarRescisao

SpecRescisao == InitRescisao /\ [][NextRescisao]_vars

----------------------------------------------------------------------------
(* core/lookup_data.py: the lookups (amounts in centavos) *)

\* max(tabela.keys())
UltimoAnoConhecido(tabela) == CHOOSE a \in DOMAIN tabela : \A b \in DOMAIN tabela : b <= a

ValorVigenteSemLaco(valor_vigente, valores_ano, mes) == valor_vigente

\* for mes_inicio, valor in valores_ano: ... else: break
RECURSIVE ValorVigente(_, _, _)
ValorVigente(valor_vigente, valores_ano, mes) ==
    IF valores_ano = << >> THEN valor_vigente
    ELSE IF mes >= Head(valores_ano)[1]
         THEN ValorVigente(Head(valores_ano)[2], Tail(valores_ano), mes)
    ELSE valor_vigente

\* sorted(tabela.keys())
RECURSIVE AnosOrdenados(_)
AnosOrdenados(anos) ==
    IF anos = {} THEN << >>
    ELSE <<CHOOSE a \in anos : \A b \in anos : a <= b>>
         \o AnosOrdenados(anos \ {CHOOSE a \in anos : \A b \in anos : a <= b})

\* ValueError("Não há dados ... para o ano {ano}. Anos disponíveis: [...]")
ErroAnoSemDados(tabela, ano) ==
    [exc |-> "ValueError", ano |-> ano, anos_disponiveis |-> AnosOrdenados(DOMAIN tabela)]

QualquerAnoAusente(tabela, ano) == TRUE

\* if ano > ultimo_ano_conhecido
AnoFuturo(tabela, ano) == ano > UltimoAnoConhecido(tabela)

\* The final amount of the latest year of the table before a year, the
\* year's own first amount when no year comes before it.
UltimoValorDoAnoAnterior(tabela, ano) ==
    IF \E b \in DOMAIN tabela : b < ano
    THEN tabela[CHOOSE b \in DOMAIN tabela :
                    b < ano /\ \A c \in DOMAIN tabela : c < ano => c <= b][
             Len(tabela[CHOOSE b \in DOMAIN tabela :
                            b < ano /\ \A c \in DOMAIN tabela : c < ano => c <= b])][2]
    ELSE tabela[ano][1][2]

\* Lines 81 and 137: valor_vigente = valores_ano[0][1]
PrimeiroValorDoAno(tabela, ano) == tabela[ano][1][2]

\* Lines 61-89 and 117-145, the same statements over either table; an index into
\* an empty list raises IndexError.
Obter(tabela, data_competencia) ==
    IF data_competencia.year \notin DOMAIN tabela
    THEN IF AnoFuturo(tabela, data_competencia.year)
         THEN IF tabela[UltimoAnoConhecido(tabela)] = << >>
              THEN [exc |-> "IndexError"]
              ELSE [exc |-> "none",
                    val |-> tabela[UltimoAnoConhecido(tabela)][
                                Len(tabela[UltimoAnoConhecido(tabela)])][2]]
         ELSE ErroAnoSemDados(tabela, data_competencia.year)
    ELSE IF tabela[data_competencia.year] = << >>
    THEN [exc |-> "IndexError"]
    ELSE [exc |-> "none",
          val |-> ValorVigente(PrimeiroValorDoAno(tabela, data_competencia.year),
                               tabela[data_competencia.year],
                               data_competencia.month)]

obter_salario_minimo(data_competencia) == Obter(HISTORICO_SALARIO_MINIMO, data_competencia)

obter_teto_inss(data_competencia) == Obter(HISTORICO_TETO_INSS, data_competencia)

AbaixoOuIgualAoPiso(rmi, salario_minimo) == rmi <= salario_minimo

\* line 258: if rmi < salario_minimo
AbaixoDoPiso(rmi, salario_minimo) == rmi < salario_minimo

\* line 265: rmi > teto_inss
AcimaDoTeto(rmi, teto_inss) == rmi > teto_inss

\* The messages are their kind; an exception of a lookup goes through.
validar_rmi(rmi, data_competencia, permitir_acima_teto) ==
    IF obter_salario_minimo(data_competencia).exc # "none"
    THEN obter_salario_minimo(data_competencia)
    ELSE IF obter_teto_inss(data_competencia).exc # "none"
    THEN obter_teto_inss(data_competencia)
    ELSE IF AbaixoDoPiso(rmi, obter_salario_minimo(data_competencia).val)
         THEN [exc |-> "none", val |-> <<FALSE, "abaixo_do_salario_minimo">>]
    ELSE IF ~permitir_acima_teto /\ AcimaDoTeto(rmi, obter_teto_inss(data_competencia).val)
         THEN [exc |-> "none", val |-> <<FALSE, "acima_do_teto">>]
    ELSE [exc |-> "none", val |-> <<TRUE, "rmi_valida">>]

\* list.sort(key=lambda x: x[0]) puts x after the entries of a sorted list
\* whose month is not greater: the sort is stable.
RECURSIVE InsereOrdenado(_, _)
InsereOrdenado(ordenada, x) ==
    IF ordenada = << >> THEN <<x>>
    ELSE IF Head(ordenada)[1] <= x[1] THEN <<Head(ordenada)>> \o InsereOrdenado(Tail(ordenada), x)
    ELSE <<x>> \o ordenada

RECURSIVE OrdenaDesde(_, _)
OrdenaDesde(ordenada, resto) ==
    IF resto = << >> THEN ordenada
    ELSE OrdenaDesde(InsereOrdenado(ordenada, Head(resto)), Tail(resto))

SemOrdenar(valores_ano) == valores_ano

\* valores_ano.sort(key=lambda x: x[0])
OrdenaPorMes(valores_ano) == OrdenaDesde(<< >>, valores_ano)

\* Lines 290-296 and 314-320: the table after an append.
Adiciona(tabela, ano, mes_inicio, valor) ==
    [a \in (DOMAIN tabela) \cup {ano} |->
        IF a = ano
        THEN OrdenaPorMes(Append(IF ano \in DOMAIN tabela THEN tabela[ano] ELSE << >>,
                                 <<mes_inicio, valor>>))
        ELSE tabela[a]]

----------------------------------------------------------------------------
(* agents/agent_prev.py: detection and the calculation step *)

\* str.lower()
LowerChar(c) ==
    CASE c = "A" -> "a" [] c = "B" -> "b" [] c = "C" -> "c" [] c = "D" -> "d"
      [] c = "E" -> "e" [] c = "F" -> "f" [] c = "G" -> "g" [] c = "H" -> "h"
      [] c = "I" -> "i" [] c = "J" -> "j" [] c = "K" -> "k" [] c = "L" -> "l"
      [] c = "M" -> "m" [] c = "N" -> "n" [] c = "O" -> "o" [] c = "P" -> "p"
      [] c = "Q" -> "q" [] c = "R" -> "r" [] c = "S" -> "s" [] c = "T" -> "t"
      [] c = "U" -> "u" [] c = "V" -> "v" [] c = "W" -> "w" [] c = "X" -> "x"
      [] c = "Y" -> "y" [] c = "Z" -> "z" [] c = "Á" -> "á" [] c = "É" -> "é"
      [] c = "Í" -> "í" [] c = "Ó" -> "ó" [] c = "Ú" -> "ú" [] c = "Ã" -> "ã"
      [] c = "Õ" -> "õ" [] c = "Ç" -> "ç"
      [] OTHER -> c

RECURSIVE Lower(_)
Lower(texto) == IF texto = << >> THEN << >> ELSE <<LowerChar(Head(texto))>> \o Lower(Tail(texto))

\* " ".join(textos)
RECURSIVE Join(_)
Join(textos) ==
    IF textos = << >> THEN << >>
    ELSE IF Len(textos) = 1 THEN Head(textos)
    ELSE Head(textos) \o <<" ">> \o Join(Tail(textos))

\* palavra in texto
Contem(texto, palavra) ==
    \E i \in 1..(Len(texto) - Len(palavra) + 1) : SubSeq(texto, i, i + Len(palavra) - 1) = palavra

\* Lines 193-202
palavras_chave_sm ==
    <<<<"s", "a", "l", "á", "r", "i", "o", " ", "m", "í", "n", "i", "m", "o">>,
      <<"s", "a", "l", "a", "r", "i", "o", " ", "m", "i", "n", "i", "m", "o">>,
      <<"u", "m", " ", "s", "a", "l", "á", "r", "i", "o", " ", "m", "í", "n", "i", "m", "o">>,
      <<"1", " ", "s", "a", "l", "á", "r", "i", "o", " ", "m", "í", "n", "i", "m", "o">>,
      <<"b", "e", "n", "e", "f", "í", "c", "i", "o", " ", "d", "e", " ", "p", "i", "s", "o">>,
      <<"p", "i", "s", "o", " ", "p", "r", "e", "v", "i", "d", "e", "n", "c", "i", "á", "r", "i", "o">>,
      <<"v", "a", "l", "o", "r", " ", "m", "í", "n", "i", "m", "o">>,
      <<"s", "m", " ", "v", "i", "g", "e", "n", "t", "e">>>>

TextoSemLower(observacoes) == Join(observacoes)

\* Lines 204-205: [obs.lower() for obs in dados.observacoes], joined
TextoObservacoes(observacoes) == Join([i \in 1..Len(observacoes) |-> Lower(observacoes[i])])

\* Lines 192-209
DetectaPorObservacoes(d) ==
    /\ d.observacoes # << >>
    /\ \E i \in 1..Len(palavras_chave_sm) :
           Contem(TextoObservacoes(d.observacoes), palavras_chave_sm[i])

\* Lines 168-189 (amounts in centavos; a failed lookup is swallowed)
DetectaPelaDib(d) ==
    /\ d.dib # None
    /\ obter_salario_minimo(Val(d.dib)).exc = "none"
    /\ \/ Abs(Val(d.rmi) - obter_salario_minimo(Val(d.dib)).val) <= 500
       \/ /\ d.tem_adicional_25
          /\ Abs(100 * Val(d.rmi) - 125 * obter_salario_minimo(Val(d.dib)).val) <= 100 * 500

detectar_salario_minimo_dinamico(d) ==
    IF ~Truthy(d.rmi) \/ Val(d.rmi) <= 0 THEN TRUE
    ELSE IF DetectaPelaDib(d) THEN TRUE
    ELSE DetectaPorObservacoes(d)

\* Lines 486-489
UsarSmDinamico(d) == IF d.dib # None THEN detectar_salario_minimo_dinamico(d) ELSE FALSE

\* Lines 507-510
PodeCalcular(d) ==
    /\ d.dib # None
    /\ UsarSmDinamico(d) \/ (Truthy(d.rmi) /\ Val(d.rmi) > 0)

\* line 518
DataFimPrev(d, today) == IF d.dip # None THEN Val(d.dip) ELSE today

\* Lines 530-537: the keyword arguments (rmi from centavos)
ArgsDoAgente(d, today) ==
    [rmi |-> IF ~UsarSmDinamico(d) THEN Val(d.rmi) * (EscalaPrev \div 100) ELSE 0,
     data_inicio |-> Val(d.dib),
     data_fim |-> DataFimPrev(d, today),
     indice |-> d.indice_correcao,
     tem_adicional_25 |-> d.tem_adicional_25,
     usar_salario_minimo_dinamico |-> UsarSmDinamico(d)]

\* Lines 521-522: validar_rmi is called, outside any try
ValidaRmi(d) == ~UsarSmDinamico(d) /\ Truthy(d.rmi)

\* Lines 485-586 of processar_acao_previdenciaria, from the extracted facts
\* on: the dict it returns ("calculo", "usar_salario_minimo_dinamico"), or
\* the exception that leaves it.
CalculoPrevidenciario(d, today, resposta) ==
    IF ~PodeCalcular(d)
    THEN [exc |-> "none",
          val |-> [calculo |-> [status |-> "nao_executado", erro |-> "dados_insuficientes"],
                   usar_salario_minimo_dinamico |-> UsarSmDinamico(d)]]
    ELSE IF ValidaRmi(d) /\ validar_rmi(Val(d.rmi), Val(d.dib), FALSE).exc # "none"
         THEN validar_rmi(Val(d.rmi), Val(d.dib), FALSE)
    ELSE IF Chamar_calcular_atrasados(ArgsDoAgente(d, today), resposta).exc # "none"
         THEN [exc |-> Chamar_calcular_atrasados(ArgsDoAgente(d, today), resposta).exc]
    ELSE [exc |-> "none",
          val |-> [calculo |-> Chamar_calcular_atrasados(ArgsDoAgente(d, today), resposta).val,
                   usar_salario_minimo_dinamico |-> UsarSmDinamico(d)]]

----------------------------------------------------------------------------
(* Arrears: the calls explored *)

\* Longest period, in months from the start month to the end month.
MaxMesesPeriodo == 14

Inicios == {Date(2023, 1, 1), Date(2023, 11, 15), Date(2024, 10, 31)}

Fins(data_inicio) ==
    {Date(MesDeIndice(i).year, MesDeIndice(i).month, dia) :
        i \in (IndiceMes(data_inicio) - 1)..(IndiceMes(data_inicio) + MaxMesesPeriodo),
        dia \in {1, 20}}

Rmis == {(0 - 100) * EscalaPrev, 0, 1200 * EscalaPrev, 1500 * EscalaPrev}

Indices == {SELIC, <<"s", "e", "l", "i", "c">>, INPC, IPCA_E, <<"T", "R">>}

ArgsPosicionais ==
    {[rmi |-> r, data_inicio |-> di, data_fim |-> df, indice |-> ix, tem_adicional_25 |-> ad] :
        r \in Rmis, di \in Inicios, df \in UNION {Fins(d) : d \in Inicios}, ix \in Indices,
        ad \in BOOLEAN}

\* agents/agent_prev.py passes one keyword more.
ComPalavraChave(a, v) ==
    [k \in (DOMAIN a) \cup {"usar_salario_minimo_dinamico"} |->
        IF k = "usar_salario_minimo_dinamico" THEN v ELSE a[k]]

ArgsAtrasados ==
    {a \in ArgsPosicionais : a.data_fim \in Fins(a.data_inicio)}
    \cup {ComPalavraChave(a, v) :
              a \in {b \in ArgsPosicionais : b.data_fim \in Fins(b.data_inicio)}, v \in BOOLEAN}

\* A monthly rate of the live series, in hundredths of a percent; no month
\* of it has the rate of the fallback table.
TaxaViva(d) == 100 + 7 * (IndiceMes(d) % 5)

\* The live series with a row for every month from the start month.
RECURSIVE LinhasCompletas(_, _)
LinhasCompletas(data_atual, data_fim) ==
    IF DataLe(data_atual, data_fim)
    THEN <<[data |-> data_atual, selic |-> Some(TaxaViva(data_atual))]>>
         \o LinhasCompletas(MaisMeses(data_atual, 1), data_fim)
    ELSE << >>

SemUltima(linhas) == IF linhas = << >> THEN << >> ELSE SubSeq(linhas, 1, Len(linhas) - 1)

SemPrimeira(linhas) == IF linhas = << >> THEN << >> ELSE Tail(linhas)

UltimaInvalida(linhas) ==
    IF linhas = << >> THEN << >> ELSE [linhas EXCEPT ![Len(linhas)].selic = None]

\* The live series of months whose published rate is 0.00.
Zerada(linhas) == [i \in 1..Len(linhas) |-> [linhas[i] EXCEPT !.selic = Some(0)]]

\* What sgs.get can give for a period.
Respostas(data_inicio, data_fim) ==
    {[tipo |-> "excecao", linhas |-> << >>],
     [tipo |-> "None", linhas |-> << >>],
     [tipo |-> "DataFrame", linhas |-> << >>]}
    \cup {[tipo |-> "DataFrame", linhas |-> l] :
             l \in {LinhasCompletas(PrimeiroDia(data_inicio), data_fim),
                    SemUltima(LinhasCompletas(PrimeiroDia(data_inicio), data_fim)),
                    SemPrimeira(LinhasCompletas(PrimeiroDia(data_inicio), data_fim)),
                    UltimaInvalida(LinhasCompletas(PrimeiroDia(data_inicio), data_fim)),
                    Zerada(LinhasCompletas(PrimeiroDia(data_inicio), data_fim))}}

InitAtrasados ==
    /\ dados \in ArgsAtrasados
    /\ sgs \in Respostas(dados.data_inicio, dados.data_fim)
    /\ resultado = None
    /\ pc = "pronto"
    /\ hoje = None
    /\ locais = None
    /\ HISTORICO_SALARIO_MINIMO = HistoricoSalarioMinimoInicial
    /\ HISTORICO_TETO_INSS = HistoricoTetoInssInicial

\* gerente.calcular_atrasados(...)
ChamarAtrasados ==
    /\ pc = "pronto"
    /\ resultado' = Chamar_calcular_atrasados(dados, sgs)
    /\ pc' = "feito"
    /\ UNCHANGED <<dados, sgs, hoje, locais, HISTORICO_SALARIO_MINIMO, HISTORICO_TETO_INSS>>

NextAtrasados == ChamarAtrasados

SpecAtrasados == InitAtrasados /\ [][NextAtrasados]_vars

----------------------------------------------------------------------------
(* The rate table alone: get_taxas_selic_mensais(data_inicio, data_fim) *)

Periodos ==
    {[data_inicio |-> di, data_fim |-> df] : di \in Inicios, df \in UNION {Fins(d) : d \in Inicios}}

InitTaxas ==
    /\ dados \in {p \in Periodos : p.data_fim \in Fins(p.data_inicio)}
    /\ sgs \in Respostas(dados.data_inicio, dados.data_fim)
    /\ resultado = None
    /\ pc = "pronto"
    /\ hoje = None
    /\ locais = None
    /\ HISTORICO_SALARIO_MINIMO = HistoricoSalarioMinimoInicial
    /\ HISTORICO_TETO_INSS = HistoricoTetoInssInicial

\* gerente.get_taxas_selic_mensais(data_inicio, data_fim)
ChamarTaxas ==
    /\ pc = "pronto"
    /\ resultado' = [exc |-> "none",
                     val |-> get_taxas_selic_mensais(sgs, dados.data_inicio, dados.data_fim)]
    /\ pc' = "feito"
    /\ UNCHANGED <<dados, sgs, hoje, locais, HISTORICO_SALARIO_MINIMO, HISTORICO_TETO_INSS>>

NextTaxas == ChamarTaxas

SpecTaxas == InitTaxas /\ [][NextTaxas]_vars

----------------------------------------------------------------------------
(* The social-security step: the extracted facts explored *)

Dibs == {None, Some(Date(2021, 6, 1)), Some(Date(2023, 3, 1)), Some(Date(2024, 1, 15))}

Dips == {None, Some(Date(2024, 6, 1))}

\* centavos: the minimum wage of 03/2023 and its 1.25, amounts near them,
\* below the floor and above the ceiling
RmisExtraidas ==
    {None, Some(0), Some(80000), Some(130200), Some(130700), Some(130701), Some(150000),
     Some(162750), Some(500000), Some(900000)}

ObservacoesExtraidas ==
    {<< >>,
     <<<<"B", "e", "n", "e", "f", "i", "c", "i", "o", " ", "d", "e", " ", "u", "m", " ", "S", "A", "L", "A", "R", "I", "O", " ", "M", "I", "N", "I", "M", "O">>>>,
     <<<<"V", "A", "L", "O", "R">>,
       <<"M", "Í", "N", "I", "M", "O">>>>,
     <<<<"a", "p", "o", "s", "e", "n", "t", "a", "d", "o", "r", "i", "a">>>>}

DadosPrevidenciarios ==
    [dib : Dibs, dip : Dips, rmi : RmisExtraidas, tem_adicional_25 : BOOLEAN,
     indice_correcao : {SELIC, INPC, <<"T", "R">>}, observacoes : ObservacoesExtraidas]

Hojes == {Date(2025, 3, 10)}

RespostasPrev(d, today) ==
    IF d.dib = None THEN Respostas(today, today) ELSE Respostas(Val(d.dib), DataFimPrev(d, today))

InitPrev ==
    /\ dados \in DadosPrevidenciarios
    /\ hoje \in {Some(h) : h \in Hojes}
    /\ locais = None
    /\ sgs \in RespostasPrev(dados, Val(hoje))
    /\ resultado = None
    /\ pc = "pronto"
    /\ HISTORICO_SALARIO_MINIMO = HistoricoSalarioMinimoInicial
    /\ HISTORICO_TETO_INSS = HistoricoTetoInssInicial

\* processar_acao_previdenciaria, after the extraction
ChamarCalculoPrev ==
    /\ pc = "pronto"
    /\ resultado' = CalculoPrevidenciario(dados, Val(hoje), sgs)
    /\ pc' = "feito"
    /\ UNCHANGED <<dados, sgs, hoje, locais, HISTORICO_SALARIO_MINIMO, HISTORICO_TETO_INSS>>

NextPrev == ChamarCalculoPrev

SpecPrev == InitPrev /\ [][NextPrev]_vars

----------------------------------------------------------------------------
(* The detection alone: detectar_salario_minimo_dinamico(dados) *)

InitDeteccao ==
    /\ dados \in DadosPrevidenciarios
    /\ sgs = None
    /\ resultado = None
    /\ pc = "pronto"
    /\ hoje = None
    /\ locais = None
    /\ HISTORICO_SALARIO_MINIMO = HistoricoSalarioMinimoInicial
    /\ HISTORICO_TETO_INSS = HistoricoTetoInssInicial

\* detectar_salario_minimo_dinamico(dados_extraidos)
ChamarDeteccao ==
    /\ pc = "pronto"
    /\ resultado' = [exc |-> "none", val |-> detectar_salario_minimo_dinamico(dados)]
    /\ pc' = "feito"
    /\ UNCHANGED <<dados, sgs, hoje, locais, HISTORICO_SALARIO_MINIMO, HISTORICO_TETO_INSS>>

NextDeteccao == ChamarDeteccao

SpecDeteccao == InitDeteccao /\ [][NextDeteccao]_vars

----------------------------------------------------------------------------
(* The reference tables: appends and lookups *)

\* The module-level dict after adicionar_salario_minimo(ano, mes_inicio, valor)
adicionar_salario_minimo(ano, mes_inicio, valor) ==
    Adiciona(HISTORICO_SALARIO_MINIMO, ano, mes_inicio, valor)

\* The module-level dict after adicionar_teto_inss(ano, mes_inicio, valor)
adicionar_teto_inss(ano, mes_inicio, valor) ==
    Adiciona(HISTORICO_TETO_INSS, ano, mes_inicio, valor)

\* Appends explored in one run.
MaxAcrescimos == 2

RECURSIVE TotalDeEntradas(_, _)
TotalDeEntradas(tabela, anos) ==
    IF anos = {} THEN 0
    ELSE Len(tabela[CHOOSE a \in anos : TRUE])
         + TotalDeEntradas(tabela, anos \ {CHOOSE a \in anos : TRUE})

Acrescimos ==
    TotalDeEntradas(HISTORICO_SALARIO_MINIMO, DOMAIN HISTORICO_SALARIO_MINIMO)
    + TotalDeEntradas(HISTORICO_TETO_INSS, DOMAIN HISTORICO_TETO_INSS)
    - TotalDeEntradas(HistoricoSalarioMinimoInicial, DOMAIN HistoricoSalarioMinimoInicial)
    - TotalDeEntradas(HistoricoTetoInssInicial, DOMAIN HistoricoTetoInssInicial)

\* A year of the table, and a year that leaves 2026 as a gap.
AnosAcrescidos == {2023, 2027}

MesesAcrescidos == {1, 5, 8}

SalariosMinimosAcrescidos == {135000, 160000}

TetosAcrescidos == {790000, 850000}

\* Before the table, in it, in the gap, appended, after every year.
DatasConsultadas ==
    {Date(ano, mes, 10) : ano \in {2021, 2023, 2026, 2027, 2028}, mes \in {2, 6, 9}}

\* Amounts around the floor and the ceiling of a date, when it has them.
RmisValidadas(data_competencia) ==
    IF obter_salario_minimo(data_competencia).exc = "none"
       /\ obter_teto_inss(data_competencia).exc = "none"
    THEN {obter_salario_minimo(data_competencia).val - 1,
          obter_salario_minimo(data_competencia).val,
          obter_teto_inss(data_competencia).val,
          obter_teto_inss(data_competencia).val + 1}
    ELSE {150000}

InitTabelas ==
    /\ dados = None
    /\ sgs = None
    /\ resultado = None
    /\ pc = "pronto"
    /\ hoje = None
    /\ locais = None
    /\ HISTORICO_SALARIO_MINIMO = HistoricoSalarioMinimoInicial
    /\ HISTORICO_TETO_INSS = HistoricoTetoInssInicial

AdicionarSalarioMinimo ==
    /\ pc = "pronto"
    /\ Acrescimos < MaxAcrescimos
    /\ \E ano \in AnosAcrescidos, mes_inicio \in MesesAcrescidos,
          valor \in SalariosMinimosAcrescidos :
           HISTORICO_SALARIO_MINIMO' = adicionar_salario_minimo(ano, mes_inicio, valor)
    /\ UNCHANGED <<dados, sgs, resultado, pc, hoje, locais, HISTORICO_TETO_INSS>>

AdicionarTetoInss ==
    /\ pc = "pronto"
    /\ Acrescimos < MaxAcrescimos
    /\ \E ano \in AnosAcrescidos, mes_inicio \in MesesAcrescidos, valor \in TetosAcrescidos :
           HISTORICO_TETO_INSS' = adicionar_teto_inss(ano, mes_inicio, valor)
    /\ UNCHANGED <<dados, sgs, resultado, pc, hoje, locais, HISTORICO_SALARIO_MINIMO>>

ObterSalarioMinimo ==
    /\ pc = "pronto"
    /\ \E d \in DatasConsultadas :
           /\ dados' = [op |-> "obter_salario_minimo", data_competencia |-> d]
           /\ resultado' = obter_salario_minimo(d)
    /\ pc' = "feito"
    /\ UNCHANGED <<sgs, hoje, locais, HISTORICO_SALARIO_MINIMO, HISTORICO_TETO_INSS>>

ObterTetoInss ==
    /\ pc = "pronto"
    /\ \E d \in DatasConsultadas :
           /\ dados' = [op |-> "obter_teto_inss", data_competencia |-> d]
           /\ resultado' = obter_teto_inss(d)
    /\ pc' = "feito"
    /\ UNCHANGED <<sgs, hoje, locais, HISTORICO_SALARIO_MINIMO, HISTORICO_TETO_INSS>>

ValidarRmi ==
    /\ pc = "pronto"
    /\ \E d \in DatasConsultadas, permitir_acima_teto \in BOOLEAN :
           \E rmi \in RmisValidadas(d) :
               /\ dados' = [op |-> "validar_rmi", rmi |-> rmi, data_competencia |-> d,
                            permitir_acima_teto |-> permitir_acima_teto]
               /\ resultado' = validar_rmi(rmi, d, permitir_acima_teto)
    /\ pc' = "feito"
    /\ UNCHANGED <<sgs, hoje, locais, HISTORICO_SALARIO_MINIMO, HISTORICO_TETO_INSS>>

NextTabelas ==
    \/ AdicionarSalarioMinimo
    \/ AdicionarTetoInss
    \/ ObterSalarioMinimo
    \/ ObterTetoInss
    \/ ValidarRmi

SpecTabelas == InitTabelas /\ [][NextTabelas]_vars

----------------------------------------------------------------------------
(* The reference tables: an append statement by statement, and a lookup    *)
(* from another thread. Nothing in lookup_data.py orders the two. pc is    *)
(* the statement the append is at, dados its call and the table before it. *)

\* Appends explored in one run with a concurrent lookup.
MaxAcrescimosConcorrentes == 1

\* The table an append or a lookup works on.
TabelaDe(op) ==
    IF op \in {"adicionar_salario_minimo", "obter_salario_minimo"}
    THEN HISTORICO_SALARIO_MINIMO ELSE HISTORICO_TETO_INSS

\* Lines 290-291 and 314-315: if ano not in tabela: tabela[ano] = []
CriaListaDoAno(tabela, ano) ==
    [a \in (DOMAIN tabela) \cup {ano} |-> IF a \in DOMAIN tabela THEN tabela[a] ELSE << >>]

\* Lines 293 and 317: tabela[ano].append((mes_inicio, valor))
AnexaPonto(tabela, ano, mes_inicio, valor) ==
    [tabela EXCEPT ![ano] = Append(@, <<mes_inicio, valor>>)]

\* Lines 296 and 320: tabela[ano].sort(key=lambda x: x[0])
OrdenaListaDoAno(tabela, ano) == [tabela EXCEPT ![ano] = OrdenaPorMes(@)]

ValoresAcrescidos(op) ==
    IF op = "adicionar_salario_minimo" THEN SalariosMinimosAcrescidos ELSE TetosAcrescidos

InitConcorrente ==
    /\ dados = None
    /\ sgs = None
    /\ resultado = None
    /\ pc = "pronto"
    /\ hoje = None
    /\ locais = None
    /\ HISTORICO_SALARIO_MINIMO = HistoricoSalarioMinimoInicial
    /\ HISTORICO_TETO_INSS = HistoricoTetoInssInicial

\* The call of adicionar_salario_minimo or adicionar_teto_inss and its first
\* statement; no append is begun after the lookup of the run.
ComecarAcrescimo ==
    /\ pc = "pronto"
    /\ resultado = None
    /\ Acrescimos < MaxAcrescimosConcorrentes
    /\ \E op \in {"adicionar_salario_minimo", "adicionar_teto_inss"},
          ano \in AnosAcrescidos, mes_inicio \in MesesAcrescidos :
           \E valor \in ValoresAcrescidos(op) :
               /\ dados' = [op |-> op, ano |-> ano, mes_inicio |-> mes_inicio, valor |-> valor,
                            antes |-> TabelaDe(op)]
               /\ IF op = "adicionar_salario_minimo"
                  THEN /\ HISTORICO_SALARIO_MINIMO' = CriaListaDoAno(HISTORICO_SALARIO_MINIMO, ano)
                       /\ UNCHANGED HISTORICO_TETO_INSS
                  ELSE /\ HISTORICO_TETO_INSS' = CriaListaDoAno(HISTORICO_TETO_INSS, ano)
                       /\ UNCHANGED HISTORICO_SALARIO_MINIMO
    /\ pc' = "linha_append"
    /\ UNCHANGED <<sgs, resultado, hoje, locais>>

AnexarPonto ==
    /\ pc = "linha_append"
    /\ IF dados.op = "adicionar_salario_minimo"
       THEN /\ HISTORICO_SALARIO_MINIMO'
                   = AnexaPonto(HISTORICO_SALARIO_MINIMO, dados.ano, dados.mes_inicio, dados.valor)
            /\ UNCHANGED HISTORICO_TETO_INSS
       ELSE /\ HISTORICO_TETO_INSS'
                   = AnexaPonto(HISTORICO_TETO_INSS, dados.ano, dados.mes_inicio, dados.valor)
            /\ UNCHANGED HISTORICO_SALARIO_MINIMO
    /\ pc' = "linha_sort"
    /\ UNCHANGED <<dados, sgs, resultado, hoje, locais>>

OrdenarLista ==
    /\ pc = "linha_sort"
    /\ IF dados.op = "adicionar_salario_minimo"
       THEN /\ HISTORICO_SALARIO_MINIMO' = OrdenaListaDoAno(HISTORICO_SALARIO_MINIMO, dados.ano)
            /\ UNCHANGED HISTORICO_TETO_INSS
       ELSE /\ HISTORICO_TETO_INSS' = OrdenaListaDoAno(HISTORICO_TETO_INSS, dados.ano)
            /\ UNCHANGED HISTORICO_SALARIO_MINIMO
    /\ pc' = "pronto"
    /\ dados' = None
    /\ UNCHANGED <<sgs, resultado, hoje, locais>>

\* The lookup of the run, from another thread, wherever the append is.
\* acrescimo is the append under way, None without one.
ConsultarSalarioMinimo ==
    /\ resultado = None
    /\ \E d \in DatasConsultadas :
           resultado' = [op |-> "obter_salario_minimo", data_competencia |-> d,
                         acrescimo |-> dados, ret |-> obter_salario_minimo(d)]
    /\ UNCHANGED <<dados, sgs, pc, hoje, locais, HISTORICO_SALARIO_MINIMO, HISTORICO_TETO_INSS>>

ConsultarTetoInss ==
    /\ resultado = None
    /\ \E d \in DatasConsultadas :
           resultado' = [op |-> "obter_teto_inss", data_competencia |-> d,
                         acrescimo |-> dados, ret |-> obter_teto_inss(d)]
    /\ UNCHANGED <<dados, sgs, pc, hoje, locais, HISTORICO_SALARIO_MINIMO, HISTORICO_TETO_INSS>>

NextConcorrente ==
    \/ ComecarAcrescimo
    \/ AnexarPonto
    \/ OrdenarLista
    \/ ConsultarSalarioMinimo
    \/ ConsultarTetoInss

SpecConcorrente == InitConcorrente /\ [][NextConcorrente]_vars

----------------------------------------------------------------------------
(* calcular_atrasados statement by statement: the validations, the fetch,  *)
(* and every iteration of the three while loops. pc is the statement the   *)
(* call is at, locais its local variables and two counters: the calls of   *)
(* sgs.get and the calls of _taxas_mensais_fallback.                       *)

DoisMesesAdiante(d) == MaisMeses(d, 2)

\* Lines 163, 377 and 427: d + relativedelta(months=1)
ProximoMes(d) == MaisMeses(d, 1)

ArgsPassos ==
    {a \in ArgsPosicionais :
        /\ a.data_fim \in Fins(a.data_inicio)
        /\ a.rmi \in {0, 1200 * EscalaPrev}
        /\ a.indice \in {SELIC, <<"T", "R">>}
        /\ ~a.tem_adicional_25}

LocaisIniciais ==
    [data_atual |-> None, competencias |-> << >>, meses_por_ano |-> << >>, i |-> 0,
     data_correcao |-> None, iteracoes |-> 0, buscas |-> 0, fallbacks |-> 0]

InitPassos ==
    /\ dados \in ArgsPassos
    /\ sgs \in Respostas(dados.data_inicio, dados.data_fim)
    /\ resultado = None
    /\ pc = "pronto"
    /\ hoje = None
    /\ locais = LocaisIniciais
    /\ HISTORICO_SALARIO_MINIMO = HistoricoSalarioMinimoInicial
    /\ HISTORICO_TETO_INSS = HistoricoTetoInssInicial

\* Lines 309-321: the two validations of the arguments.
Validar ==
    /\ pc = "pronto"
    /\ IF RmiInvalida(dados.rmi) \/ PeriodoInvalido(dados.data_inicio, dados.data_fim)
       THEN /\ resultado' = Chamar_calcular_atrasados(dados, sgs)
            /\ pc' = "feito"
       ELSE /\ pc' = "indice"
            /\ UNCHANGED resultado
    /\ UNCHANGED <<dados, sgs, hoje, locais, HISTORICO_SALARIO_MINIMO, HISTORICO_TETO_INSS>>

\* Lines 328-343: the branch on indice.upper(); an unknown index returns.
EscolherIndice ==
    /\ pc = "indice"
    /\ IF IndiceSuportado(dados.indice)
       THEN /\ pc' = "sgs_get"
            /\ UNCHANGED resultado
       ELSE /\ resultado' = Chamar_calcular_atrasados(dados, sgs)
            /\ pc' = "feito"
    /\ UNCHANGED <<dados, sgs, hoje, locais, HISTORICO_SALARIO_MINIMO, HISTORICO_TETO_INSS>>

EntraNoFallbackAposNovaBusca(l) ==
    [l EXCEPT !.buscas = @ + 1, !.fallbacks = @ + 1,
              !.data_atual = Some(PrimeiroDia(dados.data_inicio)), !.iteracoes = 0]

\* The call of _taxas_mensais_fallback and its line 144.
EntraNoFallback(l) ==
    [l EXCEPT !.fallbacks = @ + 1, !.data_atual = Some(PrimeiroDia(dados.data_inicio)),
              !.iteracoes = 0]

\* Line 347, after the table is there.
EntraNasCompetencias(l) ==
    [l EXCEPT !.data_atual = Some(PrimeiroDia(dados.data_inicio)), !.iteracoes = 0]

\* Lines 99-112 and 123-128: sgs.get, once; it raises, or gives nothing, or
\* gives rows.
Buscar ==
    /\ pc = "sgs_get"
    /\ IF SgsLevantou(sgs) \/ SemDados(sgs)
       THEN /\ locais' = EntraNoFallback([locais EXCEPT !.buscas = @ + 1])
            /\ pc' = "fallback"
       ELSE /\ locais' = [locais EXCEPT !.buscas = @ + 1]
            /\ pc' = "converter"
    /\ UNCHANGED <<dados, sgs, resultado, hoje, HISTORICO_SALARIO_MINIMO, HISTORICO_TETO_INSS>>

\* Lines 114-121 and 123-128: the rows into the dict; a row that cannot be
\* converted raises inside the try.
Converter ==
    /\ pc = "converter"
    /\ IF ConverteLinhas(<< >>, sgs.linhas).exc # "none"
       THEN /\ locais' = EntraNoFallback(locais)
            /\ pc' = "fallback"
       ELSE /\ locais' = EntraNasCompetencias(locais)
            /\ pc' = "competencias"
    /\ UNCHANGED <<dados, sgs, resultado, hoje, HISTORICO_SALARIO_MINIMO, HISTORICO_TETO_INSS>>

\* Lines 148-165: one test of the while of _taxas_mensais_fallback, and its
\* body or the return.
PassoFallback ==
    /\ pc = "fallback"
    /\ IF DataLe(Val(locais.data_atual), dados.data_fim)
       THEN /\ locais' = [locais EXCEPT !.data_atual = Some(ProximoMes(Val(@))),
                                        !.iteracoes = @ + 1]
            /\ UNCHANGED pc
       ELSE /\ locais' = EntraNasCompetencias(locais)
            /\ pc' = "competencias"
    /\ UNCHANGED <<dados, sgs, resultado, hoje, HISTORICO_SALARIO_MINIMO, HISTORICO_TETO_INSS>>

\* The installments after the pass over meses_por_ano (lines 381-402).
ComDecimosTerceiros(l) ==
    Loop13(l.competencias, l.meses_por_ano, dados.data_fim,
           RmiEfetivo(dados.rmi, dados.tem_adicional_25))

\* Lines 353-402: one test of the while of the installments, and its body;
\* after it the thirteenth installments (one pass over meses_por_ano) and
\* the first installment of the correction (lines 410-417).
PassoCompetencias ==
    /\ pc = "competencias"
    /\ IF DataLe(Val(locais.data_atual), dados.data_fim)
       THEN /\ locais' = [locais EXCEPT
                              !.meses_por_ano = ContaMes(@, Val(locais.data_atual).year),
                              !.competencias =
                                  Append(@, ParcelaMensal(Len(@) + 1, Val(locais.data_atual),
                                                          RmiEfetivo(dados.rmi, dados.tem_adicional_25))),
                              !.data_atual = Some(ProximoMes(Val(@))),
                              !.iteracoes = @ + 1]
            /\ UNCHANGED pc
       ELSE /\ locais' = [locais EXCEPT
                              !.competencias = ComDecimosTerceiros(locais),
                              !.i = 1,
                              !.data_correcao = Some(locais.competencias[1].data_vencimento),
                              !.iteracoes = 0]
            /\ pc' = "correcao"
    /\ UNCHANGED <<dados, sgs, resultado, hoje, HISTORICO_SALARIO_MINIMO, HISTORICO_TETO_INSS>>

\* Lines 419-427: one iteration of the while of one installment.
PassoCorrecao ==
    /\ pc = "correcao"
    /\ ContinuaCorrecao(Val(locais.data_correcao), dados.data_fim)
    /\ locais' = [locais EXCEPT !.data_correcao = Some(ProximoMes(Val(@))), !.iteracoes = @ + 1]
    /\ UNCHANGED <<dados, sgs, resultado, pc, hoje, HISTORICO_SALARIO_MINIMO, HISTORICO_TETO_INSS>>

\* Lines 429-444 and 412-417: the line of the trace, then the next
\* installment.
ProximaParcela ==
    /\ pc = "correcao"
    /\ ~ContinuaCorrecao(Val(locais.data_correcao), dados.data_fim)
    /\ locais.i < Len(locais.competencias)
    /\ locais' = [locais EXCEPT
                      !.i = @ + 1,
                      !.data_correcao = Some(locais.competencias[locais.i + 1].data_vencimento),
                      !.iteracoes = 0]
    /\ UNCHANGED <<dados, sgs, resultado, pc, hoje, HISTORICO_SALARIO_MINIMO, HISTORICO_TETO_INSS>>

\* Lines 479-494, the fields the steps decide (the amounts are those of
\* calcular_atrasados).
ResultadoDosPassos(l) ==
    [status |-> "sucesso",
     total_meses |-> Len(SelectSeq(l.competencias, EhRmiMensal)),
     parcelas |-> Len(l.competencias)]

\* Lines 446-494: after the last installment, the result.
Retornar ==
    /\ pc = "correcao"
    /\ ~ContinuaCorrecao(Val(locais.data_correcao), dados.data_fim)
    /\ locais.i = Len(locais.competencias)
    /\ resultado' = [exc |-> "none", val |-> ResultadoDosPassos(locais)]
    /\ pc' = "feito"
    /\ UNCHANGED <<dados, sgs, hoje, locais, HISTORICO_SALARIO_MINIMO, HISTORICO_TETO_INSS>>

NextPassos ==
    \/ Validar
    \/ EscolherIndice
    \/ Buscar
    \/ Converter
    \/ PassoFallback
    \/ PassoCompetencias
    \/ PassoCorrecao
    \/ ProximaParcela
    \/ Retornar

SpecPassos == InitPassos /\ [][NextPassos]_vars

\* The interpreter runs the next statement of a call under way.
SpecPassosJusto == SpecPassos /\ WF_vars(NextPassos)

----------------------------------------------------------------------------
(* Severance: properties *)

RescisaoFeita == pc = "feito" /\ resultado # None

\* C1: calcular_rescisao returns status=erro, with total_estimado = 0 and
\* total_geral = 0, exactly when a date is absent or the base salary is
\* absent or <= 0; every other input (termination before admission, no
\* requested item, unrecognized items) gives status=sucesso, and no call
\* raises.
C1_ErroExatamenteQuandoEntradaInvalida ==
    RescisaoFeita =>
        /\ resultado.exc = "none"
        /\ resultado.val.status \in {"erro", "sucesso"}
        /\ (resultado.val.status = "erro") <=>
               \/ dados.data_admissao = None
               \/ dados.data_dispensa = None
               \/ dados.salario_base = None
               \/ Val(dados.salario_base) <= 0
        /\ (resultado.val.status = "erro") =>
               resultado.val.total_estimado = 0 /\ resultado.val.total_geral = 0

\* C1 witness: a termination before the admission, with only unrecognized
\* or uncomputed items requested, succeeds.
C1_Witness ==
    /\ RescisaoFeita
    /\ dados.data_admissao # None /\ dados.data_dispensa # None
    /\ DataLt(Val(dados.data_dispensa), Val(dados.data_admissao))
    /\ dados.verbas_requeridas = <<"saldo_salario", "horas_extras">>
    /\ resultado.val.status = "sucesso"
    /\ resultado.val.tempo_servico.meses_totais30 < 0

\* C10: whenever multa_40 is requested its amount is 0.40 x (0.08 x base
\* salary x total months), with or without fgts among the requested items,
\* also for zero or negative total months.
C10_Multa40SobreFgtsRecalculado ==
    (RescisaoFeita /\ resultado.val.status = "sucesso"
        /\ InSeq("multa_40", dados.verbas_requeridas)) =>
        /\ "multa_40_fgts" \in DOMAIN resultado.val.memoria_calculo
        /\ resultado.val.memoria_calculo["multa_40_fgts"].valor =
               Round2((Escala \div (1000 * 30)) * 32 * Val(dados.salario_base)
                      * resultado.val.tempo_servico.meses_totais30)

\* C10 witness: the penalty is requested without fgts and is not zero.
C10_Witness ==
    /\ RescisaoFeita /\ resultado.val.status = "sucesso"
    /\ InSeq("multa_40", dados.verbas_requeridas)
    /\ ~InSeq("fgts", dados.verbas_requeridas)
    /\ resultado.val.tempo_servico.meses_totais30 = 51
    /\ resultado.val.memoria_calculo["multa_40_fgts"].valor = 544

RescisaoSucesso == RescisaoFeita /\ resultado.exc = "none" /\ resultado.val.status = "sucesso"

\* C11: in every successful result total_geral is exactly the sum of the
\* reported, already rounded total_estimado, multa_477_valor and
\* multa_467_valor.
C11_TotalGeralSomaDosArredondados ==
    RescisaoSucesso =>
        resultado.val.total_geral
            = resultado.val.total_estimado + resultado.val.multa_477_valor
              + resultado.val.multa_467_valor

\* The reported value of a line item, 0 for an item that was not requested.
ValorDaVerba(verba) ==
    IF InSeq(verba, dados.verbas_requeridas) THEN resultado.val.memoria_calculo[verba].valor ELSE 0

BaseIncontroversa ==
    ValorDaVerba("aviso_previo") + ValorDaVerba("ferias_proporcionais")
    + ValorDaVerba("decimo_terceiro")

\* C12: with multa_467_requerida the Art. 467 penalty is 50% of the sum of
\* the notice-period, proportional-vacation and thirteenth-salary line items
\* of the same call (0 for one not requested), to the centavo; FGTS and the
\* 40% penalty are not in its base; without the flag it is 0.
C12_Multa467SobreVerbasIncontroversas ==
    RescisaoSucesso =>
        IF dados.multa_467_requerida
        THEN /\ Abs(2 * resultado.val.multa_467_valor - BaseIncontroversa) <= 1
             /\ (BaseIncontroversa % 2 = 0) =>
                    2 * resultado.val.multa_467_valor = BaseIncontroversa
             /\ resultado.val.memoria_calculo["multa_467_clt"].valor
                    = resultado.val.multa_467_valor
        ELSE /\ resultado.val.multa_467_valor = 0
             /\ "multa_467_clt" \notin DOMAIN resultado.val.memoria_calculo

\* C12 witness: the penalty is asked for together with FGTS, the 40%
\* penalty and the three items of its base.
C12_Witness ==
    /\ RescisaoSucesso
    /\ dados.multa_467_requerida
    /\ {"fgts", "multa_40_fgts", "aviso_previo", "ferias_proporcionais", "decimo_terceiro"}
           \subseteq DOMAIN resultado.val.memoria_calculo
    /\ resultado.val.memoria_calculo["fgts"].valor > 0
    /\ resultado.val.multa_467_valor > 0

\* An allowance that is absent counts as 0.
ValorAdicional(o) == IF o = None THEN 0 ELSE Val(o)

SomaAdicionais(a) ==
    IF a = None THEN 0
    ELSE ValorAdicional(Val(a).insalubridade) + ValorAdicional(Val(a).periculosidade)
         + ValorAdicional(Val(a).noturno)

\* The same facts without the Art. 477 flag.
Sem477 == calcular_rescisao([dados EXCEPT !.multa_477_requerida = FALSE])

\* C13: with multa_477_requerida the Art. 477 penalty is the base salary
\* plus the allowances that are present, whatever items are requested; it
\* is part of total_geral and not of total_estimado; without the flag it
\* is 0.
C13_Multa477RemuneracaoTotal ==
    RescisaoSucesso =>
        /\ resultado.val.multa_477_valor
               = IF dados.multa_477_requerida
                 THEN 100 * (Val(dados.salario_base) + SomaAdicionais(dados.adicionais))
                 ELSE 0
        /\ resultado.val.total_estimado = Sem477.total_estimado
        /\ resultado.val.total_geral = Sem477.total_geral + resultado.val.multa_477_valor

\* C13 witness: allowances present, no item requested, the penalty asked for.
C13_Witness ==
    /\ RescisaoSucesso
    /\ dados.multa_477_requerida
    /\ dados.adicionais # None
    /\ dados.verbas_requeridas = << >>
    /\ resultado.val.multa_477_valor = 12000
    /\ resultado.val.total_estimado = 0
    /\ resultado.val.total_geral = 12000

\* n/d to the nearest integer, ties to even (d > 0).
ArredondaRazao(n, d) ==
    IF 2 * (n % d) < d THEN n \div d
    ELSE IF 2 * (n % d) > d THEN (n \div d) + 1
    ELSE IF (n \div d) % 2 = 0 THEN n \div d ELSE (n \div d) + 1

\* C14: when ferias_proporcionais is requested its amount is
\* (base salary / 12) x (total months modulo 12) x 4/3, four thirds of the
\* thirteenth salary of the same facts. In centavos, with the months in
\* thirtieths: salary x 100 x (m30 / 30) / 12 x 4 / 3 = salary x m30 x 10 / 27.
C14_FeriasQuatroTercosDoDecimoTerceiro ==
    (RescisaoSucesso /\ InSeq("ferias_proporcionais", dados.verbas_requeridas)) =>
        resultado.val.memoria_calculo["ferias_proporcionais"].valor
            = ArredondaRazao(10 * Val(dados.salario_base)
                                * (resultado.val.tempo_servico.meses_totais30 % (12 * 30)),
                             27)

\* C15: when saldo_salario is requested there is no line item for it and
\* the observation about the items not calculated automatically lists it.
C15_SaldoSalarioListadoComoNaoCalculado ==
    (RescisaoSucesso /\ InSeq("saldo_salario", dados.verbas_requeridas)) =>
        /\ "saldo_salario" \notin DOMAIN resultado.val.memoria_calculo
        /\ \E i \in 1..Len(resultado.val.observacoes) :
               /\ resultado.val.observacoes[i][1] = "nao_calculadas"
               /\ InSeq("saldo_salario", resultado.val.observacoes[i][2])

\* The whole months from an admission to a termination not before it: the
\* most months that, added to the admission, do not pass the termination.
MesesInteiros(adm, disp) ==
    CHOOSE m \in 0..(IndiceMes(disp) - IndiceMes(adm) + 1) :
        /\ DataLe(MaisMeses(adm, m), disp)
        /\ DataLt(disp, MaisMeses(adm, m + 1))

\* The facts of the example: admission 2021-09-01, termination 2021-10-22.
ExemploA ==
    /\ dados.data_admissao = Some(Date(2021, 9, 1))
    /\ dados.data_dispensa = Some(Date(2021, 10, 22))

\* C24: the time in service is 12 x whole years + whole months of the
\* calendar-aware difference between admission and termination, plus the
\* leftover days / 30 when there are leftover days; the FGTS item is
\* 0.08 x base salary x that total and the notice-period item is one base
\* salary; 2021-09-01 to 2021-10-22 is 1 + 21/30 months.
C24_TempoDeServicoFgtsAviso ==
    RescisaoSucesso =>
        /\ resultado.val.tempo_servico.meses_totais30
               = 30 * (12 * resultado.val.tempo_servico.anos + resultado.val.tempo_servico.meses)
                 + (IF resultado.val.tempo_servico.dias > 0
                    THEN resultado.val.tempo_servico.dias ELSE 0)
        /\ DataLe(Val(dados.data_admissao), Val(dados.data_dispensa)) =>
               /\ resultado.val.tempo_servico.meses \in 0..11
               /\ 12 * resultado.val.tempo_servico.anos + resultado.val.tempo_servico.meses
                      = MesesInteiros(Val(dados.data_admissao), Val(dados.data_dispensa))
               /\ resultado.val.tempo_servico.dias
                      = Ordinal(Val(dados.data_dispensa))
                        - Ordinal(MaisMeses(Val(dados.data_admissao),
                                            MesesInteiros(Val(dados.data_admissao),
                                                          Val(dados.data_dispensa))))
        /\ InSeq("fgts", dados.verbas_requeridas) =>
               resultado.val.memoria_calculo["fgts"].valor
                   = ArredondaRazao(Val(dados.salario_base) * 8
                                        * resultado.val.tempo_servico.meses_totais30, 30)
        /\ InSeq("aviso_previo", dados.verbas_requeridas) =>
               resultado.val.memoria_calculo["aviso_previo"].valor = 100 * Val(dados.salario_base)
        /\ ExemploA => resultado.val.tempo_servico.meses_totais30 = 30 + 21

\* C24 witness: the example with salary 100.00 and FGTS, 40% penalty and
\* notice period requested: 1 month and 21 days, FGTS 100 x 0.08 x 1.7 =
\* 13.60, notice 100.00.
C24_Witness ==
    /\ RescisaoSucesso /\ ExemploA
    /\ dados.verbas_requeridas = <<"fgts", "multa_40", "aviso_previo">>
    /\ resultado.val.tempo_servico.anos = 0
    /\ resultado.val.tempo_servico.meses = 1
    /\ resultado.val.tempo_servico.dias = 21
    /\ resultado.val.memoria_calculo["fgts"].valor = 1360
    /\ resultado.val.memoria_calculo["aviso_previo"].valor = 10000

----------------------------------------------------------------------------
(* Arrears: properties *)

AtrasadosFeito == pc = "feito" /\ resultado # None

AtrasadosSucesso ==
    AtrasadosFeito /\ resultado.exc = "none" /\ resultado.val.status = "sucesso"

BaseFixa == "usar_salario_minimo_dinamico" \notin DOMAIN dados

\* The table the call under way reads.
TabelaUsada == get_taxas_selic_mensais(sgs, dados.data_inicio, dados.data_fim)

\* The first day of the month a "MM/YYYY" label names.
MesDaCompetencia(c) ==
    Date(c[3] * 1000 + c[4] * 100 + c[5] * 10 + c[6], c[1] * 10 + c[2], 1)

\* The rates of the months from a due month to the end month, 0 for a month
\* the table does not have.
TaxasEsperadas(vencimento, data_fim, tabela) ==
    [i \in 1..(IndiceMes(data_fim) - IndiceMes(vencimento) + 1) |->
        IF Competencia(MesDeIndice(IndiceMes(vencimento) + i - 1)) \in DOMAIN tabela
        THEN tabela[Competencia(MesDeIndice(IndiceMes(vencimento) + i - 1))]
        ELSE 0]

\* (1 + r1/100) * ... * (1 + rn/100) with six decimals, from p on
RECURSIVE ProdutoMicro(_, _)
ProdutoMicro(p, taxas) ==
    IF taxas = << >> THEN p
    ELSE ProdutoMicro(p + (p * Head(taxas)) \div (100 * 100), Tail(taxas))

\* One line of memoria_mensal has the factor of its due month.
FatorDoVencimento(linha, data_fim, tabela) ==
    /\ linha.taxas = TaxasEsperadas(MesDaCompetencia(linha.competencia), data_fim, tabela)
    /\ linha.fator_correcao = ProdutoMicro(Micro, linha.taxas)

\* C2: the correction factor of every installment, ordinary or thirteenth,
\* is the product of (1 + rate[m]/100) over every month m from the
\* installment's due month through data_fim's month inclusive, a month the
\* table lacks counting as rate 0; an installment due in the end month
\* accrues the end month's rate.
C2_FatorDoVencimentoAteOFim ==
    AtrasadosSucesso =>
        \A i \in 1..Len(resultado.val.memoria_mensal) :
            FatorDoVencimento(resultado.val.memoria_mensal[i], dados.data_fim, TabelaUsada)

\* C2 witness: a live series without the start month; the first installment
\* counts rate 0 for it, and the installment due in the end month carries
\* the end month's rate alone.
C2_Witness ==
    /\ AtrasadosSucesso
    /\ Competencia(dados.data_inicio) \notin DOMAIN TabelaUsada
    /\ Len(resultado.val.memoria_mensal) >= 3
    /\ resultado.val.memoria_mensal[1].taxas[1] = 0
    /\ \E i \in 1..Len(resultado.val.memoria_mensal) :
           /\ resultado.val.memoria_mensal[i].competencia = Competencia(dados.data_fim)
           /\ resultado.val.memoria_mensal[i].taxas = <<TaxaViva(dados.data_fim)>>
           /\ resultado.val.memoria_mensal[i].fator_correcao > Micro

\* C3: every successful call has exactly one thirteenth-salary installment
\* for each civil year from data_inicio's year to data_fim's year, whatever
\* month the range ends in.
C3_Um13PorAnoCivil ==
    AtrasadosSucesso =>
        /\ \A ano \in dados.data_inicio.year..dados.data_fim.year :
               Cardinality({i \in 1..Len(resultado.val.memoria_mensal) :
                               resultado.val.memoria_mensal[i].numero = <<"13º", ano>>}) = 1
        /\ Len(SelectSeq(resultado.val.memoria_mensal, EhParcela13))
               = dados.data_fim.year - dados.data_inicio.year + 1

\* C4: a call with the dynamic-base flag set succeeds, also with rmi = 0,
\* and every ordinary installment is the minimum wage of its own month
\* (times 1.25 with the uplift).
C4_BaseDinamicaAceita ==
    (AtrasadosFeito /\ ~BaseFixa /\ dados.usar_salario_minimo_dinamico
       /\ DataLt(dados.data_inicio, dados.data_fim) /\ IndiceSuportado(dados.indice)) =>
        /\ resultado.exc = "none"
        /\ resultado.val.status = "sucesso"
        /\ \A i \in 1..Len(resultado.val.memoria_mensal) :
               EhRmiMensal(resultado.val.memoria_mensal[i]) =>
                   100 * resultado.val.memoria_mensal[i].valor_original
                       = (IF dados.tem_adicional_25 THEN 125 ELSE 100)
                         * obter_salario_minimo(
                               MesDaCompetencia(resultado.val.memoria_mensal[i].competencia)).val

\* C5: with a fixed base the call raises nothing and returns status erro,
\* total_corrigido 0, exactly when rmi <= 0, or data_inicio >= data_fim, or
\* the index name, whatever its case, is none of SELIC, INPC, IPCA-E; every
\* other call returns status sucesso.
C5_ErroExatamenteQuandoEntradaInvalida ==
    (AtrasadosFeito /\ BaseFixa) =>
        /\ resultado.exc = "none"
        /\ resultado.val.status \in {"erro", "sucesso"}
        /\ (resultado.val.status = "erro") <=>
               \/ dados.rmi <= 0
               \/ ~DataLt(dados.data_inicio, dados.data_fim)
               \/ Upper(dados.indice) \notin {SELIC, INPC, IPCA_E}
        /\ (resultado.val.status = "erro") => resultado.val.total_corrigido = 0

\* C5 witness: a positive rmi and a supported index with data_inicio equal
\* to data_fim give erro.
C5_Witness ==
    /\ AtrasadosFeito /\ BaseFixa
    /\ dados.rmi > 0 /\ dados.indice = <<"s", "e", "l", "i", "c">>
    /\ dados.data_inicio = dados.data_fim
    /\ resultado.exc = "none" /\ resultado.val.status = "erro"
    /\ resultado.val.total_corrigido = 0

\* C8: when INPC or IPCA-E is asked for, the SELIC table is what is used and
\* the result says so: an observation records the substitution, and neither
\* indice_aplicado nor the index observation names the requested index.
C8_SubstituicaoRegistrada ==
    (AtrasadosSucesso /\ Upper(dados.indice) \in {INPC, IPCA_E}) =>
        /\ resultado.val.indice_aplicado # Upper(dados.indice)
        /\ \E i \in 1..Len(resultado.val.observacoes) :
               resultado.val.observacoes[i][1] = "indice_substituido"
        /\ \A i \in 1..Len(resultado.val.observacoes) :
               resultado.val.observacoes[i][1] = "indice_de_correcao" =>
                   resultado.val.observacoes[i][2] # Upper(dados.indice)

\* The index of the month an installment of the trace is due in.
MesDeVencimento(linha) == IndiceMes(MesDaCompetencia(linha.competencia))

\* The period covers two calendar months, M1 and M2.
DoisMeses == IndiceMes(dados.data_fim) = IndiceMes(dados.data_inicio) + 1

\* The rate the table has for the month a date lies in, 0 without one.
TaxaDaTabela(d) ==
    IF Competencia(d) \in DOMAIN TabelaUsada THEN TabelaUsada[Competencia(d)] ELSE 0

\* C21: within one result, of any two installments the one due in the
\* earlier month has a correction factor greater than or equal to that of
\* the one due in the later month; over a two-month period [M1, M2] the M1
\* installment has factor (1 + r1/100)(1 + r2/100) and every installment due
\* in M2 has factor (1 + r2/100).
C21_ParcelaMaisAntigaFatorMaior ==
    AtrasadosSucesso =>
        /\ \A i, j \in 1..Len(resultado.val.memoria_mensal) :
               MesDeVencimento(resultado.val.memoria_mensal[i])
                   <= MesDeVencimento(resultado.val.memoria_mensal[j])
               => resultado.val.memoria_mensal[i].fator_correcao
                      >= resultado.val.memoria_mensal[j].fator_correcao
        /\ DoisMeses =>
               \A i \in 1..Len(resultado.val.memoria_mensal) :
                   IF MesDeVencimento(resultado.val.memoria_mensal[i]) = IndiceMes(dados.data_inicio)
                   THEN /\ resultado.val.memoria_mensal[i].taxas
                               = <<TaxaDaTabela(dados.data_inicio), TaxaDaTabela(dados.data_fim)>>
                        /\ resultado.val.memoria_mensal[i].fator_correcao
                               = ProdutoMicro(Micro, <<TaxaDaTabela(dados.data_inicio),
                                                       TaxaDaTabela(dados.data_fim)>>)
                   ELSE /\ resultado.val.memoria_mensal[i].taxas = <<TaxaDaTabela(dados.data_fim)>>
                        /\ resultado.val.memoria_mensal[i].fator_correcao
                               = ProdutoMicro(Micro, <<TaxaDaTabela(dados.data_fim)>>)

\* C21 witness: a two-month period read from the live series; the M1
\* installment's factor is strictly above the M2 installment's, which is
\* above 1.
C21_Witness ==
    /\ AtrasadosSucesso /\ DoisMeses
    /\ sgs.tipo = "DataFrame"
    /\ TaxaDaTabela(dados.data_inicio) = TaxaViva(dados.data_inicio)
    /\ Len(resultado.val.memoria_mensal) >= 2
    /\ MesDeVencimento(resultado.val.memoria_mensal[1]) = IndiceMes(dados.data_inicio)
    /\ MesDeVencimento(resultado.val.memoria_mensal[2]) = IndiceMes(dados.data_fim)
    /\ resultado.val.memoria_mensal[1].fator_correcao > resultado.val.memoria_mensal[2].fator_correcao
    /\ resultado.val.memoria_mensal[2].fator_correcao > Micro

\* Every monthly rate of the table the call reads is zero.
TabelaZerada == \A c \in DOMAIN TabelaUsada : TabelaUsada[c] = 0

\* C22: when every monthly rate of the table is zero, every installment has
\* correction factor 1.0 and corrected amount equal to its original amount,
\* total_corrigido equals total_devido_sem_correcao exactly and
\* diferenca_correcao is 0, whatever the length of the period.
C22_TaxasZeroFatorUm ==
    (AtrasadosSucesso /\ TabelaZerada) =>
        /\ \A i \in 1..Len(resultado.val.memoria_mensal) :
               /\ resultado.val.memoria_mensal[i].fator_correcao = Micro
               /\ resultado.val.memoria_mensal[i].valor_corrigido
                      = resultado.val.memoria_mensal[i].valor_original
        /\ resultado.val.total_corrigido = resultado.val.total_devido_sem_correcao
        /\ resultado.val.diferenca_correcao = 0

\* C22 witness: a live series of zero rates over twelve months or more.
C22_Witness ==
    /\ AtrasadosSucesso /\ TabelaZerada
    /\ Cardinality(DOMAIN TabelaUsada) >= 12
    /\ resultado.val.total_meses >= 12
    /\ resultado.val.total_corrigido > 0
    /\ resultado.val.total_corrigido = resultado.val.total_devido_sem_correcao

\* The ordinary installments of the trace, in the order of the trace.
Ordinarias == SelectSeq(resultado.val.memoria_mensal, EhRmiMensal)

\* The calendar months from data_inicio's month through data_fim's month.
MesesDoIntervalo == IndiceMes(dados.data_fim) - IndiceMes(dados.data_inicio) + 1

\* The monthly base in centavos: rmi, or rmi x 1.25 with the uplift.
BaseMensalCentavos ==
    Round2Prev(IF dados.tem_adicional_25 THEN (dados.rmi * 125) \div 100 ELSE dados.rmi)

\* The call of the example: 1500.00 over 2023-01-01..2024-01-01, no uplift.
ExemploB ==
    /\ dados.rmi = 1500 * EscalaPrev /\ ~dados.tem_adicional_25
    /\ dados.data_inicio = Date(2023, 1, 1) /\ dados.data_fim = Date(2024, 1, 1)

AnoDo13(linha) == linha.tipo[2]

\* The ordinary installments of the trace that fall in a civil year.
OrdinariasDoAno(ano) ==
    {j \in 1..Len(resultado.val.memoria_mensal) :
        /\ EhRmiMensal(resultado.val.memoria_mensal[j])
        /\ MesDaCompetencia(resultado.val.memoria_mensal[j].competencia).year = ano}

\* The effective monthly base of the call, in 1/EscalaPrev real.
BaseEfetiva == IF dados.tem_adicional_25 THEN (dados.rmi * 125) \div 100 ELSE dados.rmi

\* The month a thirteenth installment of a civil year is due in.
Vencimento13(ano) ==
    IF ano < dados.data_fim.year THEN Date(ano, 12, 1) ELSE PrimeiroDia(dados.data_fim)

\* One thirteenth-salary line, at position i of the trace.
Linha13Correta(i) ==
    /\ resultado.val.memoria_mensal[i].valor_original
           = ArredondaRazao(BaseEfetiva * Cardinality(OrdinariasDoAno(
                                              AnoDo13(resultado.val.memoria_mensal[i]))),
                            12 * (EscalaPrev \div 100))
    /\ resultado.val.memoria_mensal[i].competencia
           = Competencia(Vencimento13(AnoDo13(resultado.val.memoria_mensal[i])))
    /\ \A j \in 1..Len(resultado.val.memoria_mensal) :
           EhRmiMensal(resultado.val.memoria_mensal[j]) => j < i
    /\ \E j \in 1..Len(resultado.val.memoria_mensal) :
           /\ EhRmiMensal(resultado.val.memoria_mensal[j])
           /\ resultado.val.memoria_mensal[j].competencia
                  = resultado.val.memoria_mensal[i].competencia
           /\ resultado.val.memoria_mensal[j].fator_correcao
                  = resultado.val.memoria_mensal[i].fator_correcao

\* C28: every thirteenth-salary installment of a civil year Y has original
\* amount (effective monthly base / 12) x (ordinary installments of the
\* period that fall in Y), is due on 1 December of Y when Y is before
\* data_fim's year and on the first day of data_fim's month when Y is
\* data_fim's year, comes in the trace after every ordinary installment,
\* and has the correction factor of the ordinary installment of its month.
C28_DecimoTerceiroValorEVencimento ==
    AtrasadosSucesso =>
        \A i \in 1..Len(resultado.val.memoria_mensal) :
            EhParcela13(resultado.val.memoria_mensal[i]) => Linha13Correta(i)

\* C28 witness: a period that ends in November or December of its second
\* year: a thirteenth installment of the first year, due in its December,
\* and one of the year of data_fim, due in data_fim's month, both corrected.
C28_Witness ==
    /\ AtrasadosSucesso
    /\ dados.data_inicio.year < dados.data_fim.year
    /\ Len(SelectSeq(resultado.val.memoria_mensal, EhParcela13)) = 2
    /\ \E i \in 1..Len(resultado.val.memoria_mensal) :
           /\ EhParcela13(resultado.val.memoria_mensal[i])
           /\ AnoDo13(resultado.val.memoria_mensal[i]) = dados.data_inicio.year
           /\ resultado.val.memoria_mensal[i].competencia
                  = Competencia(Date(dados.data_inicio.year, 12, 1))
           /\ resultado.val.memoria_mensal[i].valor_original > 0
           /\ resultado.val.memoria_mensal[i].fator_correcao > Micro
    /\ \E i \in 1..Len(resultado.val.memoria_mensal) :
           /\ EhParcela13(resultado.val.memoria_mensal[i])
           /\ AnoDo13(resultado.val.memoria_mensal[i]) = dados.data_fim.year
           /\ resultado.val.memoria_mensal[i].competencia = Competencia(dados.data_fim)

----------------------------------------------------------------------------
(* The rate table: properties *)

TaxasFeito == pc = "feito" /\ resultado # None

\* The live series can be converted: a DataFrame with rows, all numbers.
SerieUtilizavel ==
    /\ sgs.tipo = "DataFrame"
    /\ sgs.linhas # << >>
    /\ \A i \in 1..Len(sgs.linhas) : sgs.linhas[i].selic # None

\* Every entry of the table is a row of the live series.
SoDaSerieViva(tabela) ==
    \A c \in DOMAIN tabela :
        \E i \in 1..Len(sgs.linhas) :
            /\ sgs.linhas[i].selic # None
            /\ Competencia(sgs.linhas[i].data) = c
            /\ Val(sgs.linhas[i].selic) = tabela[c]

MesesDoPeriodo(data_inicio, data_fim) ==
    {Competencia(MesDeIndice(i)) : i \in IndiceMes(data_inicio)..IndiceMes(data_fim)}

\* C6: get_taxas_selic_mensais raises nothing; when the fetch raises,
\* returns None or an empty series (or a row of it cannot be converted) the
\* table is the whole fallback table of the range; otherwise it is the live
\* series, row for row. No table has rates of both.
C6_FallbackInteiroOuSerieViva ==
    TaxasFeito =>
        /\ resultado.exc = "none"
        /\ IF SerieUtilizavel
           THEN /\ SoDaSerieViva(resultado.val)
                /\ \A i \in 1..Len(sgs.linhas) :
                       /\ Competencia(sgs.linhas[i].data) \in DOMAIN resultado.val
                       /\ resultado.val[Competencia(sgs.linhas[i].data)] = Val(sgs.linhas[i].selic)
           ELSE resultado.val = _taxas_mensais_fallback(dados.data_inicio, dados.data_fim)
        /\ \/ SoDaSerieViva(resultado.val)
           \/ \A c \in DOMAIN resultado.val :
                  resultado.val[c] = TaxaFallback(MesDaCompetencia(c).year)

\* C6 witness: an empty series over a period of several months gives the
\* fallback table, every month of it.
C6_Witness ==
    /\ TaxasFeito
    /\ sgs.tipo = "DataFrame" /\ sgs.linhas = << >>
    /\ Cardinality(DOMAIN resultado.val) >= 3
    /\ resultado.val = _taxas_mensais_fallback(dados.data_inicio, dados.data_fim)

\* C7: whatever the fetch gives (complete, partial, empty, exception), the
\* table has an entry for every month from data_inicio's month through
\* data_fim's month; the fallback table has exactly those months.
C7_TabelaCobreTodosOsMeses ==
    TaxasFeito =>
        /\ MesesDoPeriodo(dados.data_inicio, dados.data_fim) \subseteq DOMAIN resultado.val
        /\ ~SerieUtilizavel =>
               DOMAIN resultado.val = MesesDoPeriodo(dados.data_inicio, dados.data_fim)

----------------------------------------------------------------------------
(* The social-security step: properties *)

PrevFeito == pc = "feito" /\ resultado # None

\* C9: with a benefit-start date present, whatever its year, the RMI and
\* the index name, the step detection -> validation -> calcular_atrasados
\* ends with a result of status sucesso or erro; no exception leaves it.
C9_NenhumaExcecaoEscapa ==
    (PrevFeito /\ dados.dib # None) =>
        /\ resultado.exc = "none"
        /\ resultado.val.calculo.status \in {"sucesso", "erro"}

----------------------------------------------------------------------------
(* The detection: properties *)

DeteccaoFeita == pc = "feito" /\ resultado # None

\* (a) the RMI is absent or not positive
RmiAusenteOuNaoPositiva == dados.rmi = None \/ Val(dados.rmi) <= 0

\* (b) the RMI is within 5.00 of the minimum wage of the benefit-start date,
\* or of 1.25 times it when the 25% flag is set (centavos)
RmiPertoDoMinimo ==
    /\ dados.dib # None
    /\ obter_salario_minimo(Val(dados.dib)).exc = "none"
    /\ \/ Abs(Val(dados.rmi) - obter_salario_minimo(Val(dados.dib)).val) <= 500
       \/ /\ dados.tem_adicional_25
          /\ Abs(100 * Val(dados.rmi) - 125 * obter_salario_minimo(Val(dados.dib)).val)
                 <= 100 * 500

\* (c) some remark contains a keyword, whatever the case of its letters
AlgumaObservacaoContemPalavraChave ==
    \E i \in 1..Len(dados.observacoes) :
        \E k \in 1..Len(palavras_chave_sm) :
            Contem(Lower(dados.observacoes[i]), palavras_chave_sm[k])

\* C16: detectar_salario_minimo_dinamico raises nothing and returns true
\* exactly when (a) the RMI is absent or <= 0, or (b) the benefit-start date
\* is present, its minimum-wage lookup succeeds and the RMI is within 5.00
\* of the minimum wage (or of 1.25 times it with the 25% flag), or (c) some
\* remark contains one of the keywords, case-insensitively; a failed lookup
\* falls through to (c).
C16_DeteccaoExatamenteNosTresCasos ==
    DeteccaoFeita =>
        /\ resultado.exc = "none"
        /\ resultado.val <=>
               \/ RmiAusenteOuNaoPositiva
               \/ RmiPertoDoMinimo
               \/ AlgumaObservacaoContemPalavraChave

\* (c') the remarks, put together with one space between them, contain a
\* keyword, whatever the case of their letters
ObservacoesUnidasContemPalavraChave ==
    \E k \in 1..Len(palavras_chave_sm) : Contem(Lower(Join(dados.observacoes)), palavras_chave_sm[k])

\* C16 (amended): as C16, with (c) read over the remarks joined by single
\* spaces: a keyword may begin in one remark and end in the next.
C16_DeteccaoComObservacoesUnidas ==
    DeteccaoFeita =>
        /\ resultado.exc = "none"
        /\ resultado.val <=>
               \/ RmiAusenteOuNaoPositiva
               \/ RmiPertoDoMinimo
               \/ ObservacoesUnidasContemPalavraChave

\* C16 witness: an RMI of 5000.00 against a minimum wage of 1412.00, and two
\* remarks that hold a keyword only between them: the detection is true.
C16_Witness ==
    /\ DeteccaoFeita
    /\ dados.rmi = Some(500000)
    /\ dados.dib # None /\ obter_salario_minimo(Val(dados.dib)) = [exc |-> "none", val |-> 141200]
    /\ Len(dados.observacoes) = 2
    /\ ~AlgumaObservacaoContemPalavraChave
    /\ resultado.val = TRUE

----------------------------------------------------------------------------
(* The reference tables: properties *)

ConsultaFeita ==
    pc = "feito" /\ dados # None /\ dados.op \in {"obter_salario_minimo", "obter_teto_inss"}

\* The table the lookup under way reads.
TabelaConsultada ==
    IF dados.op = "obter_salario_minimo" THEN HISTORICO_SALARIO_MINIMO ELSE HISTORICO_TETO_INSS

\* The positions of the breakpoints in force in a month.
IndicesVigentes(valores_ano, mes) == {i \in 1..Len(valores_ano) : valores_ano[i][1] <= mes}

Maior(conjunto) == CHOOSE i \in conjunto : \A j \in conjunto : j <= i

\* C17: in every table state reached by appends, a lookup for a date whose
\* year is in the table returns the amount of the last breakpoint of that
\* year whose month is <= the date's month (when there is one); for a year
\* that is absent and later than every known year it returns the final
\* breakpoint of the latest known year.
C17_UltimoPontoVigente ==
    ConsultaFeita =>
        /\ (/\ dados.data_competencia.year \in DOMAIN TabelaConsultada
            /\ IndicesVigentes(TabelaConsultada[dados.data_competencia.year],
                               dados.data_competencia.month) # {}) =>
               resultado
                   = [exc |-> "none",
                      val |-> TabelaConsultada[dados.data_competencia.year][
                                  Maior(IndicesVigentes(
                                            TabelaConsultada[dados.data_competencia.year],
                                            dados.data_competencia.month))][2]]
        /\ (\A a \in DOMAIN TabelaConsultada : dados.data_competencia.year > a) =>
               resultado
                   = [exc |-> "none",
                      val |-> TabelaConsultada[Maior(DOMAIN TabelaConsultada)][
                                  Len(TabelaConsultada[Maior(DOMAIN TabelaConsultada)])][2]]

\* C17 witness: after two appends to 2023 the minimum wage of June 2023 is
\* an appended amount.
C17_Witness ==
    /\ ConsultaFeita
    /\ dados = [op |-> "obter_salario_minimo", data_competencia |-> Date(2023, 6, 10)]
    /\ Len(HISTORICO_SALARIO_MINIMO[2023]) = 4
    /\ resultado.exc = "none"
    /\ resultado.val \in SalariosMinimosAcrescidos

\* A lookup whose year is not in the table and not after the latest year.
ConsultaDeAnoSemDados ==
    /\ ConsultaFeita
    /\ dados.data_competencia.year \notin DOMAIN TabelaConsultada
    /\ \E a \in DOMAIN TabelaConsultada : dados.data_competencia.year <= a

\* C18: a lookup for a year that is absent from the table and not later
\* than the latest known year (before the first year, or a gap) raises an
\* error that lists the available years, returns no amount, and leaves both
\* tables as they were.
C18_AnoSemDadosFalha ==
    /\ [](ConsultaDeAnoSemDados =>
            /\ resultado.exc = "ValueError"
            /\ "val" \notin DOMAIN resultado
            /\ Len(resultado.anos_disponiveis) = Cardinality(DOMAIN TabelaConsultada)
            /\ \A i \in 1..Len(resultado.anos_disponiveis) :
                   /\ resultado.anos_disponiveis[i] \in DOMAIN TabelaConsultada
                   /\ i > 1 => resultado.anos_disponiveis[i - 1] < resultado.anos_disponiveis[i])
    /\ [][ConsultaDeAnoSemDados' => UNCHANGED <<HISTORICO_SALARIO_MINIMO, HISTORICO_TETO_INSS>>]_vars

\* C18 witness: 2027 was appended and a lookup for 2026, the gap, failed.
C18_Witness ==
    /\ ConsultaDeAnoSemDados
    /\ dados.data_competencia.year = 2026
    /\ 2027 \in DOMAIN TabelaConsultada
    /\ resultado.exc = "ValueError"
    /\ resultado.anos_disponiveis = <<2022, 2023, 2024, 2025, 2027>>

OrdenadaPorMes(valores_ano) ==
    \A i \in 1..(Len(valores_ano) - 1) : valores_ano[i][1] <= valores_ano[i + 1][1]

Ocorrencias(x, valores_ano) == Cardinality({k \in 1..Len(valores_ano) : valores_ano[k] = x})

\* Every breakpoint of the table before is in the table after, as often.
Mantida(antes, depois) ==
    \A ano \in DOMAIN antes :
        /\ ano \in DOMAIN depois
        /\ \A i \in 1..Len(antes[ano]) :
               Ocorrencias(antes[ano][i], depois[ano]) >= Ocorrencias(antes[ano][i], antes[ano])

\* C19: after any sequence of appends to the two tables (any year, any
\* month, any order, months repeated) every year's list is in
\* non-decreasing order of month, and no step loses a breakpoint.
C19_ListasOrdenadasENadaPerdido ==
    /\ [](/\ \A ano \in DOMAIN HISTORICO_SALARIO_MINIMO :
                 OrdenadaPorMes(HISTORICO_SALARIO_MINIMO[ano])
          /\ \A ano \in DOMAIN HISTORICO_TETO_INSS : OrdenadaPorMes(HISTORICO_TETO_INSS[ano]))
    /\ [][/\ Mantida(HISTORICO_SALARIO_MINIMO, HISTORICO_SALARIO_MINIMO')
          /\ Mantida(HISTORICO_TETO_INSS, HISTORICO_TETO_INSS')]_vars

\* C19 witness: a month-1 and a month-5 breakpoint were appended to 2023,
\* each standing after the shipped breakpoint of its month.
C19_Witness ==
    /\ Len(HISTORICO_SALARIO_MINIMO[2023]) = 4
    /\ HISTORICO_SALARIO_MINIMO[2023][1] = <<1, 130200>>
    /\ HISTORICO_SALARIO_MINIMO[2023][2] = <<1, 160000>>
    /\ HISTORICO_SALARIO_MINIMO[2023][3] = <<5, 132000>>
    /\ HISTORICO_SALARIO_MINIMO[2023][4] = <<5, 135000>>

ValidacaoFeita ==
    /\ pc = "feito" /\ dados # None /\ dados.op = "validar_rmi"
    /\ obter_salario_minimo(dados.data_competencia).exc = "none"
    /\ obter_teto_inss(dados.data_competencia).exc = "none"

PisoDaData == obter_salario_minimo(dados.data_competencia).val

TetoDaData == obter_teto_inss(dados.data_competencia).val

\* C20: validar_rmi gives (false, floor message) when the amount is below
\* the minimum wage of the date; otherwise (false, ceiling message) when
\* the ceiling is not bypassed and the amount is above it; otherwise
\* (true, valid). An amount equal to the floor or to the ceiling passes,
\* and the floor applies also when the ceiling is bypassed.
C20_PisoDepoisTeto ==
    ValidacaoFeita =>
        /\ resultado.exc = "none"
        /\ resultado.val
               = IF dados.rmi < PisoDaData THEN <<FALSE, "abaixo_do_salario_minimo">>
                 ELSE IF ~dados.permitir_acima_teto /\ dados.rmi > TetoDaData
                      THEN <<FALSE, "acima_do_teto">>
                 ELSE <<TRUE, "rmi_valida">>
        /\ dados.rmi \in {PisoDaData, TetoDaData} => resultado.val[1]
        /\ (dados.permitir_acima_teto /\ dados.rmi = PisoDaData - 1) => ~resultado.val[1]

\* C20 witness: an amount equal to the ceiling, the ceiling not bypassed.
C20_Witness ==
    /\ ValidacaoFeita
    /\ dados.rmi = TetoDaData
    /\ ~dados.permitir_acima_teto
    /\ resultado = [exc |-> "none", val |-> <<TRUE, "rmi_valida">>]

\* The lookup done is for a year the table has, in a month before the
\* year's first breakpoint.
ConsultaAntesDoPrimeiroPonto ==
    /\ ConsultaFeita
    /\ dados.data_competencia.year \in DOMAIN TabelaConsultada
    /\ IndicesVigentes(TabelaConsultada[dados.data_competencia.year],
                       dados.data_competencia.month) = {}

\* C30: when the year of the date is in the table and none of its
\* breakpoints has a month <= the date's month, obter_salario_minimo and
\* obter_teto_inss return the amount of the year's first breakpoint; they
\* do not fail and do not answer from the year before.
C30_AntesDoPrimeiroPontoDoAno ==
    ConsultaAntesDoPrimeiroPonto =>
        resultado = [exc |-> "none",
                     val |-> TabelaConsultada[dados.data_competencia.year][1][2]]

\* C30 witness: 2027 was appended with breakpoints from May on only; the
\* minimum wage of February 2027 is the amount of 2027's first breakpoint,
\* not the 1518.00 that ends 2025.
C30_Witness ==
    /\ ConsultaAntesDoPrimeiroPonto
    /\ dados = [op |-> "obter_salario_minimo", data_competencia |-> Date(2027, 2, 10)]
    /\ HISTORICO_SALARIO_MINIMO[2027][1][1] >= 5
    /\ resultado.exc = "none"
    /\ resultado.val = HISTORICO_SALARIO_MINIMO[2027][1][2]
    /\ resultado.val # 151800

\* The year of a date has the same list, or no list, in both tables: an
\* append that led from one to the other was for another year.
AnoIntocado(antes, depois, d) ==
    IF d.year \in DOMAIN antes
    THEN depois[d.year] = antes[d.year]
    ELSE d.year \notin DOMAIN depois

\* The lookups that succeeded before an append for another year succeed
\* after it with the same amount.
ConsultasMantidas(antes, depois) ==
    \A d \in DatasConsultadas :
        (AnoIntocado(antes, depois, d) /\ Obter(antes, d).exc = "none") =>
            Obter(depois, d) = Obter(antes, d)

\* C29: an append never invalidates or changes the lookups of other years:
\* when obter_salario_minimo (obter_teto_inss) succeeds for a date, then
\* after adicionar_salario_minimo (adicionar_teto_inss) for a year that is
\* not the date's, the same lookup succeeds and returns the same amount.
C29_AcrescimoNaoMudaOutrosAnos ==
    [][/\ ConsultasMantidas(HISTORICO_SALARIO_MINIMO, HISTORICO_SALARIO_MINIMO')
       /\ ConsultasMantidas(HISTORICO_TETO_INSS, HISTORICO_TETO_INSS')]_vars

----------------------------------------------------------------------------
(* The reference tables under a concurrent lookup: properties *)

\* The lookup of the run ran while an append to its own table was under way.
ConsultaDuranteAcrescimo ==
    /\ resultado # None
    /\ resultado.acrescimo # None
    /\ \/ resultado.op = "obter_salario_minimo" /\ resultado.acrescimo.op = "adicionar_salario_minimo"
       \/ resultado.op = "obter_teto_inss" /\ resultado.acrescimo.op = "adicionar_teto_inss"

\* C25: a lookup that runs while adicionar_salario_minimo or
\* adicionar_teto_inss is under way never sees an intermediate table (a year
\* list just created and still empty, a list appended to and not yet
\* sorted): it returns what it would return before the append or what it
\* would return after it, and the append never makes it fail.
C25_ConsultaNaoVeEstadoIntermediario ==
    ConsultaDuranteAcrescimo =>
        resultado.ret \in
            {Obter(resultado.acrescimo.antes, resultado.data_competencia),
             Obter(Adiciona(resultado.acrescimo.antes, resultado.acrescimo.ano,
                            resultado.acrescimo.mes_inicio, resultado.acrescimo.valor),
                   resultado.data_competencia)}

----------------------------------------------------------------------------
(* calcular_atrasados statement by statement: properties *)

\* The calendar months of the period, data_inicio's and data_fim's included.
MesesDoPeriodoDaChamada ==
    IF DataLt(dados.data_inicio, dados.data_fim)
    THEN IndiceMes(dados.data_fim) - IndiceMes(dados.data_inicio) + 1
    ELSE 0

\* A step that is one iteration of one of the three while loops.
IteracaoDeLaco == locais'.iteracoes = locais.iteracoes + 1

\* The loop's date moves to the next calendar month.
AvancaUmMes ==
    IF pc = "correcao"
    THEN IndiceMes(Val(locais'.data_correcao)) = IndiceMes(Val(locais.data_correcao)) + 1
    ELSE IndiceMes(Val(locais'.data_atual)) = IndiceMes(Val(locais.data_atual)) + 1

\* C26: every call of calcular_atrasados comes to its return, whether the
\* fetch gives rows, gives nothing or raises; each iteration of the loop of
\* the fallback table, of the loop of the installments and of the loop of
\* an installment's correction moves its date on by exactly one calendar
\* month, and none of the loops runs more iterations than the period has
\* calendar months (data_inicio's month through data_fim's month).
C26_TodaChamadaTermina ==
    /\ <>(pc = "feito")
    /\ [](locais.iteracoes <= MesesDoPeriodoDaChamada)
    /\ [][IteracaoDeLaco => AvancaUmMes]_vars

\* C26 witness: a call whose fetch raised has returned with a year or more
\* of installments, the loop of the last one run.
C26_Witness ==
    /\ pc = "feito"
    /\ sgs.tipo = "excecao"
    /\ locais # None /\ locais.fallbacks = 1
    /\ Len(locais.competencias) >= 13
    /\ locais.i = Len(locais.competencias)
    /\ resultado.exc = "none" /\ resultado.val.status = "sucesso"

\* The three validations of the arguments pass.
ArgumentosValidos ==
    /\ ~RmiInvalida(dados.rmi)
    /\ ~PeriodoInvalido(dados.data_inicio, dados.data_fim)
    /\ IndiceSuportado(dados.indice)

\* The attempt to read the live series failed: sgs.get raised, or gave None
\* or an empty series, or a row of the series raised in the conversion.
TentativaFalhou ==
    \/ SgsLevantou(sgs)
    \/ SemDados(sgs)
    \/ ConverteLinhas(<< >>, sgs.linhas).exc # "none"

\* C27: within one call of calcular_atrasados the validations come before
\* any access to the data source: sgs.get is called only with valid
\* arguments, a call that returns status erro has called it never, a call
\* that returns status sucesso has called it exactly once (no retry), and
\* the fallback table is built at most once, and only after that one
\* attempt failed or gave an empty series.
C27_ValidacaoAntesDaBusca ==
    /\ locais.buscas <= 1
    /\ locais.fallbacks <= 1
    /\ locais.buscas = 1 => ArgumentosValidos
    /\ locais.fallbacks = 1 => (locais.buscas = 1 /\ TentativaFalhou)
    /\ pc = "feito" =>
           /\ resultado.exc = "none"
           /\ IF resultado.val.status = "erro"
              THEN locais.buscas = 0 /\ locais.fallbacks = 0
              ELSE resultado.val.status = "sucesso" /\ locais.buscas = 1

\* C27 witness: a successful call whose one fetch gave an empty series and
\* whose table is the fallback, built once.
C27_Witness ==
    /\ pc = "feito"
    /\ resultado.exc = "none" /\ resultado.val.status = "sucesso"
    /\ sgs.tipo = "DataFrame" /\ sgs.linhas = << >>
    /\ locais.buscas = 1 /\ locais.fallbacks = 1

====
